---- MODULE Spec2Model ----
(***************************************************************************)
(* Verification model of the text core of the repository:                  *)
(*   src/learning_engine.py  _ensure_4_options, AIEngine.generate_quiz,    *)
(*                           QuizGenerator.generate / _normalize_question  *)
(*   src/nlp_engine.py       SentenceRewriter, TextRankSummarizer,         *)
(*                           SmartQuizGenerator                            *)
(* Python strings are TLA+ strings; slicing, strip(), lower() and split()  *)
(* are computed character by character.  random.shuffle is a               *)
(* nondeterministic choice among all permutations.                         *)
(***************************************************************************)
EXTENDS Integers, Sequences, FiniteSets, TLC

VARIABLES
    pc,          \* position of the running call
    options,     \* _ensure_4_options: the local `options`
    is_list,     \* _ensure_4_options: isinstance(options, list)
    correct,     \* _ensure_4_options: the argument `correct`
    filler_idx,  \* _ensure_4_options: the local `filler_idx`
    matrix,      \* _pagerank: the argument `matrix` (rows of rationals)
    damping,     \* _pagerank: the argument `damping`
    iterations,  \* _pagerank: the argument `iterations`
    norm_matrix, \* _pagerank: the local `norm_matrix`
    scores,      \* _pagerank: the local `scores`
    iter_no,     \* _pagerank: passes of the power-iteration loop begun so far
    text,          \* summarize, generate, repair: the argument `text`
    ratio,         \* summarize: the argument `ratio`
    max_sentences, \* summarize: the argument `max_sentences`
    min_sentences, \* summarize: the argument `min_sentences`
    sentences,     \* summarize: the local `sentences`
    rank_scores,   \* summarize: the local `scores`
    top_indices,   \* summarize: the local `top_indices`
    summary,       \* summarize: the returned string
    clean,         \* SmartQuizGenerator.generate: the local `clean`
    level,         \* both generate methods: the argument `level`
    n_questions,   \* both generate methods: the argument `n_questions`
    rng,           \* both generate methods: the state of the random source
    structured,    \* SmartQuizGenerator.generate: the local `structured`
    all_sentences, \* SmartQuizGenerator.generate: the local `all_sentences`
    questions,     \* both generate methods: the local `questions`
    unique,        \* both generate methods: the local `unique`
    selected,      \* both generate methods: the returned list
    concepts_data, \* QuizGenerator.generate: the argument `concepts_data`
    ai_questions,  \* QuizGenerator.generate: the local `ai_questions`
    normalized,    \* QuizGenerator.generate: the local `normalized`
    vectors,       \* _build_similarity_matrix: the local `vectors`
    similarity,    \* _build_similarity_matrix: the local `matrix`
    cell,          \* _build_similarity_matrix: the loop indices <<i, j>>
    repaired,      \* OCRTextRepair.repair: the local `text` as the passes rewrite it
    caller,        \* OCRTextRepair.repair: who receives the returned string
    instance,      \* what the objects hold between calls: class tables and components
    rw_sentence,   \* rewrite_sentence: the argument `sentence`
    rw_result,     \* rewrite_sentence: the returned string
    answers,       \* calculate_score: the argument `answers`
    quiz,          \* calculate_score: the argument `questions`
    ans_no,        \* calculate_score: passes of the loop `for ans in answers` begun so far
    details,       \* calculate_score: the local `details`
    correct_count, \* calculate_score: the local `correct_count`
    report         \* calculate_score: the returned dict, without the per-topic entries

eVars == <<options, is_list, correct, filler_idx>>
pVars == <<matrix, damping, iterations, norm_matrix, scores, iter_no>>
sVars == <<text, ratio, max_sentences, min_sentences, sentences, rank_scores,
           top_indices, summary>>
qVars == <<clean, level, n_questions, rng, structured, all_sentences, questions,
           unique, selected>>
gVars == <<concepts_data, ai_questions, normalized>>
mVars == <<vectors, similarity, cell>>
rVars == <<repaired, caller>>
iVars == <<instance>>
wVars == <<rw_sentence, rw_result>>
uVars == <<answers, quiz, ans_no, details, correct_count, report>>
vars == <<pc, eVars, pVars, sVars, qVars, gVars, mVars, rVars, iVars, wVars, uVars>>

\* everything a call of _ensure_4_options leaves alone
notE == <<pVars, sVars, qVars, gVars, mVars, rVars, iVars, wVars, uVars>>
\* everything a call of _pagerank leaves alone
notP == <<eVars, sVars, qVars, gVars, mVars, rVars, iVars, wVars, uVars>>
\* everything a call of summarize leaves alone
notS == <<eVars, pVars, qVars, gVars, mVars, rVars, iVars, wVars, uVars>>
\* everything a call of SmartQuizGenerator.generate leaves alone
notQ == <<eVars, pVars, sVars, gVars, mVars, rVars, iVars, wVars, uVars>>
\* everything a call of QuizGenerator.generate leaves alone
notG == <<eVars, pVars, sVars, clean, structured, all_sentences, mVars, rVars, iVars, wVars, uVars>>
\* everything a call of _build_similarity_matrix leaves alone
notM == <<eVars, pVars, text, ratio, max_sentences, min_sentences, rank_scores,
          top_indices, summary, qVars, gVars, rVars, iVars, wVars, uVars>>
\* everything the passes of OCRTextRepair.repair leave alone
notR == <<eVars, pVars, sVars, qVars, gVars, mVars, caller, iVars, wVars, uVars>>

\* ------------------------------------------------------------------------
\* Python string and list primitives
\* ------------------------------------------------------------------------
Min(a, b) == IF a < b THEN a ELSE b
Max(a, b) == IF a > b THEN a ELSE b

Range(s) == { s[i] : i \in 1..Len(s) }

\* the list whose entries are f[1], ..., f[n], built once
AsList(f) == SubSeq(f, 1, Len(f))

\* x in list
InList(x, s) == \E i \in 1..Len(s) : s[i] = x

\* s[:n]
Prefix(s, n) == SubSeq(s, 1, Min(n, Len(s)))

\* s[n:]
Suffix(s, n) == SubSeq(s, Min(n, Len(s)) + 1, Len(s))

UPPER == "ABCDEFGHIJKLMNOPQRSTUVWXYZ"
LOWER == "abcdefghijklmnopqrstuvwxyz"

UpperChars == { SubSeq(UPPER, i, i) : i \in 1..26 }
LowerChars == { SubSeq(LOWER, i, i) : i \in 1..26 }
ToLower == [c \in UpperChars |->
              LET i == CHOOSE k \in 1..26 : SubSeq(UPPER, k, k) = c IN SubSeq(LOWER, i, i)]
ToUpper == [c \in LowerChars |->
              LET i == CHOOSE k \in 1..26 : SubSeq(LOWER, k, k) = c IN SubSeq(UPPER, i, i)]

IsUpperChar(c) == c \in UpperChars
IsLowerChar(c) == c \in LowerChars
IsAlphaChar(c) == IsUpperChar(c) \/ IsLowerChar(c)

LowerChar(c) == IF IsUpperChar(c) THEN ToLower[c] ELSE c

UpperChar(c) == IF IsLowerChar(c) THEN ToUpper[c] ELSE c

RECURSIVE LowerRange(_, _, _)
\* s[lo..hi] lower-cased, by halves
LowerRange(s, lo, hi) ==
    IF lo > hi THEN ""
    ELSE IF lo = hi THEN LowerChar(SubSeq(s, lo, lo))
    ELSE LET mid == (lo + hi) \div 2
         IN  LowerRange(s, lo, mid) \o LowerRange(s, mid + 1, hi)

\* str.lower()
Lower(s) == LowerRange(s, 1, Len(s))

\* str.isspace() for the whitespace the texts contain
IsSpace(c) == c \in {" ", "\n", "\t"}

\* str.strip()
Strip(s) ==
    IF \A i \in 1..Len(s) : IsSpace(SubSeq(s, i, i)) THEN ""
    ELSE LET first == CHOOSE i \in 1..Len(s) :
                         /\ ~IsSpace(SubSeq(s, i, i))
                         /\ \A j \in 1..(i - 1) : IsSpace(SubSeq(s, j, j))
             last == CHOOSE i \in 1..Len(s) :
                         /\ ~IsSpace(SubSeq(s, i, i))
                         /\ \A j \in (i + 1)..Len(s) : IsSpace(SubSeq(s, j, j))
         IN  SubSeq(s, first, last)

\* every arrangement random.shuffle can leave a list in
Shuffled(s) ==
    LET n == Len(s)
        bij == { f \in [1..n -> 1..n] : \A i, j \in 1..n : i # j => f[i] # f[j] }
    IN  { [i \in 1..n |-> s[f[i]]] : f \in bij }

\* the first k entries of a shuffled list: shuffle(s); s[:k]
ShuffledPrefix(s, k) ==
    LET n == Len(s)
        m == Min(k, n)
        inj == { f \in [1..m -> 1..n] : \A i, j \in 1..m : i # j => f[i] # f[j] }
    IN  { [i \in 1..m |-> s[f[i]]] : f \in inj }

RECURSIVE Without(_, _)
\* [o for o in s if o != c]
Without(s, c) ==
    IF Len(s) = 0 THEN <<>>
    ELSE (IF Head(s) # c THEN <<Head(s)>> ELSE <<>>) \o Without(Tail(s), c)

\* ------------------------------------------------------------------------
\* learning_engine._ensure_4_options
\* ------------------------------------------------------------------------
FILLER_OPTIONS ==
    << "None of the above",
       "Cannot be determined from the text",
       "All of the above",
       "The text does not specify this" >>

KeyLen == 60
NumOptions == 4

\* key = str(o).strip().lower()[:60]
DedupKey(o) == Prefix(Lower(Strip(o)), KeyLen)

\* if correct and correct not in options: options = [correct] + options
WithCorrect(opts, c) ==
    IF c # "" /\ ~InList(c, opts) THEN <<c>> \o opts ELSE opts

RECURSIVE DedupFrom(_, _, _)
\* the "Remove duplicates" loop over the remaining entries
DedupFrom(opts, seen, uniq) ==
    IF Len(opts) = 0 THEN uniq
    ELSE LET key == DedupKey(Head(opts)) IN
         IF key \notin seen
         THEN DedupFrom(Tail(opts), seen \cup {key}, Append(uniq, Head(opts)))
         ELSE DedupFrom(Tail(opts), seen, uniq)

\* seen = set(); unique = []; for o in options: ...
RemoveDuplicates(opts) == DedupFrom(opts, {}, <<>>)

\* the "Trim to 4 keeping correct answer" block, one result per shuffle
TrimToFour(opts, c) ==
    IF Len(opts) > NumOptions
    THEN LET wrong == Without(opts, c)
         IN  { <<c>> \o w : w \in ShuffledPrefix(wrong, 3) }
    ELSE { opts }

\* PadOnce with the membership test inverted
PadOnce_inverted(opts, idx) ==
    LET filler == FILLER_OPTIONS[(idx % Len(FILLER_OPTIONS)) + 1]
    IN  IF InList(filler, opts) THEN Append(opts, filler) ELSE opts

\* one iteration of the "Pad to 4" loop body
PadOnce(opts, idx) ==
    LET filler == FILLER_OPTIONS[(idx % Len(FILLER_OPTIONS)) + 1]
    IN  IF ~InList(filler, opts) THEN Append(opts, filler) ELSE opts

\* while len(options) < 4: ...   (the list after the loop, started at idx)
RECURSIVE PadToFour(_, _)
PadToFour(opts, idx) ==
    IF Len(opts) < NumOptions THEN PadToFour(PadOnce(opts, idx), idx + 1) ELSE opts

\* random.shuffle(options); return options[:4]
ShuffleAndCut(opts) == { Prefix(p, NumOptions) : p \in Shuffled(opts) }

\* every list _ensure_4_options(options, correct) can return
ensure_4_options(isl, opts, c) ==
    LET o1 == IF isl THEN opts ELSE <<>>
        o3 == RemoveDuplicates(WithCorrect(o1, c))
    IN  UNION { ShuffleAndCut(PadToFour(o4, 0)) : o4 \in TrimToFour(o3, c) }

\* --- inputs ------------------------------------------------------------
Z60 == "zzzzzzzzzzzzzzzzzzzzzzzzzzzzzzzzzzzzzzzzzzzzzzzzzzzzzzzzzzzz"
LongX == Z60 \o "x"
LongY == Z60 \o "y"

\* strings an options list is drawn from: case / whitespace variants of one
\* answer, two strings that differ only after the 60th character, a
\* lower-case spelling of a filler, and plain distinct strings
OptPool == { "a", " A", LongX, LongY, "b", "c", "none of the above" }
CorrectPool == { "", "a", LongX, "c" }

\* a str passed where a list is expected
NonListValue == "ab"

MaxOpts == 5

\* lists without exact repeats: an exact repeat is removed by the
\* "Remove duplicates" loop exactly as a same-key entry is
InputLists ==
    UNION { { f \in [1..k -> OptPool] : \A i, j \in 1..k : i # j => f[i] # f[j] }
            : k \in 0..MaxOpts }

\* ------------------------------------------------------------------------
\* what the objects hold between calls
\* ------------------------------------------------------------------------
\* NLPEngine.STOPWORDS
STOPWORDS ==
    { "a", "an", "the", "is", "it", "in", "on", "at", "to", "for", "of", "and", "or",
      "but", "not", "with", "this", "that", "was", "are", "were", "be", "been",
      "being", "have", "has", "had", "do", "does", "did", "will", "would", "could",
      "should", "may", "might", "shall", "can", "from", "by", "as", "into",
      "through", "during", "before", "after", "above", "below", "up", "down",
      "out", "off", "over", "under", "again", "then", "once", "here", "there",
      "when", "where", "why", "how", "all", "each", "every", "both", "few", "more",
      "most", "other", "some", "such", "no", "only", "same", "so", "than", "too",
      "very", "just", "because", "if", "while", "about", "its", "their", "our",
      "your", "his", "her", "him", "me", "we", "us", "they", "them", "he", "she",
      "i", "my", "you", "said", "one", "like", "know", "get", "got", "upon", "even",
      "back", "still", "also", "well", "now", "whose", "whom", "which", "what", "who",
      "am", "let", "go", "come", "came", "went", "take", "took",
      "make", "made", "see", "saw", "say", "tell", "told", "ask", "asked", "think",
      "thought", "look", "looked", "want", "wanted", "give", "gave", "keep", "kept" }

\* OCRTextRepair.OCR_CHAR_FIXES: the patterns and what replaces them
OCR_CHAR_FIXES ==
    << <<"(?<=[a-z])rn(?=[a-z])", "m">>, <<"\\brn\\b", "m">>, <<"\\b0(?=[a-zA-Z])", "O">> >>

\* the attributes the constructors set: SmartQuizGenerator.__init__ and
\* TextRankSummarizer.__init__
COMPONENTS ==
    [ nlp |-> "NLPEngine", summarizer |-> "TextRankSummarizer",
      rewriter |-> "SentenceRewriter" ]

\* the class tables and the component references after construction
Constructed ==
    [ STOPWORDS |-> STOPWORDS, OCR_CHAR_FIXES |-> OCR_CHAR_FIXES,
      components |-> COMPONENTS ]

\* no call has started
Init ==
    /\ pc = "idle"
    /\ options = <<>>
    /\ is_list = TRUE
    /\ correct = ""
    /\ filler_idx = 0
    /\ matrix = <<>>
    /\ damping = <<0, 1>>
    /\ iterations = 0
    /\ norm_matrix = <<>>
    /\ scores = <<>>
    /\ iter_no = 0
    /\ text = ""
    /\ ratio = <<0, 1>>
    /\ max_sentences = 0
    /\ min_sentences = 0
    /\ sentences = <<>>
    /\ rank_scores = <<>>
    /\ top_indices = <<>>
    /\ summary = ""
    /\ clean = ""
    /\ level = ""
    /\ n_questions = 0
    /\ rng = "keep"
    /\ structured = [key_facts |-> <<>>]
    /\ all_sentences = <<>>
    /\ questions = <<>>
    /\ unique = <<>>
    /\ selected = <<>>
    /\ concepts_data = [key_sentences |-> <<>>, people |-> <<>>, acronyms |-> <<>>]
    /\ ai_questions = <<>>
    /\ normalized = <<>>
    /\ vectors = <<>>
    /\ similarity = <<>>
    /\ cell = <<0, 0>>
    /\ repaired = ""
    /\ caller = ""
    /\ instance = Constructed
    /\ rw_sentence = ""
    /\ rw_result = ""
    /\ answers = <<>>
    /\ quiz = <<>>
    /\ ans_no = 0
    /\ details = <<>>
    /\ correct_count = 0
    /\ report = [total |-> 0]

\* a caller enters _ensure_4_options(options, correct)
E_Call ==
    /\ pc = "idle"
    /\ \/ is_list' = TRUE /\ options' \in InputLists
       \/ is_list' = FALSE /\ options' = NonListValue
    /\ correct' \in CorrectPool
    /\ pc' = "e_check"
    /\ UNCHANGED filler_idx
    /\ UNCHANGED notE

\* if not isinstance(options, list): options = []
E_Check ==
    /\ pc = "e_check"
    /\ options' = IF is_list THEN options ELSE <<>>
    /\ is_list' = TRUE
    /\ pc' = "e_prepend"
    /\ UNCHANGED <<correct, filler_idx>>
    /\ UNCHANGED notE

E_Prepend ==
    /\ pc = "e_prepend"
    /\ options' = WithCorrect(options, correct)
    /\ pc' = "e_dedup"
    /\ UNCHANGED <<is_list, correct, filler_idx>>
    /\ UNCHANGED notE

E_Dedup ==
    /\ pc = "e_dedup"
    /\ options' = RemoveDuplicates(options)
    /\ pc' = "e_trim"
    /\ UNCHANGED <<is_list, correct, filler_idx>>
    /\ UNCHANGED notE

E_Trim ==
    /\ pc = "e_trim"
    /\ \E o \in TrimToFour(options, correct) : options' = o
    /\ filler_idx' = 0
    /\ pc' = "e_pad"
    /\ UNCHANGED <<is_list, correct>>
    /\ UNCHANGED notE

\* one test of the while condition, and one pass through the body if it holds
E_Pad ==
    /\ pc = "e_pad"
    /\ IF Len(options) < NumOptions
       THEN /\ options' = PadOnce(options, filler_idx)
            /\ filler_idx' = filler_idx + 1
            /\ pc' = "e_pad"
       ELSE /\ pc' = "e_shuffle"
            /\ UNCHANGED <<options, filler_idx>>
    /\ UNCHANGED <<is_list, correct>>
    /\ UNCHANGED notE

E_Shuffle ==
    /\ pc = "e_shuffle"
    /\ \E r \in ShuffleAndCut(options) : options' = r
    /\ pc' = "e_done"
    /\ UNCHANGED <<is_list, correct, filler_idx>>
    /\ UNCHANGED notE

NextE == E_Call \/ E_Check \/ E_Prepend \/ E_Dedup \/ E_Trim \/ E_Pad \/ E_Shuffle

SpecE == Init /\ [][NextE]_vars

\* ------------------------------------------------------------------------
\* Properties of _ensure_4_options
\* ------------------------------------------------------------------------

\* C3: the returned list contains a non-empty `correct` as an exact member
C3_CorrectIsMember ==
    (pc = "e_done" /\ correct # "") => InList(correct, options)

\* C4: the returned entries are pairwise distinct under the dedup key
C4_DistinctKeys ==
    pc = "e_done" =>
        \A i, j \in 1..Len(options) :
            i # j => DedupKey(options[i]) # DedupKey(options[j])

\* C5: every call returns a list of exactly 4 entries, and the padding loop
\* ends: filler_idx counts its passes and never exceeds the number of fillers
C5_ReturnsFour ==
    /\ pc = "e_done" => Len(options) = NumOptions
    /\ filler_idx <= Len(FILLER_OPTIONS)

\* a call that had to pad (from an empty or non-list input) has returned
C5_Witness ==
    pc = "e_done" /\ filler_idx = NumOptions /\ Len(options) = NumOptions

\* ------------------------------------------------------------------------
\* Exact arithmetic for the float computations: a number is <<num, den>>
\* in lowest terms with den > 0
\* ------------------------------------------------------------------------
RECURSIVE GCD(_, _)
GCD(a, b) == IF b = 0 THEN a ELSE GCD(b, a % b)

Abs(a) == IF a < 0 THEN -a ELSE a

Rat(n, d) ==
    LET g == GCD(Abs(n), Abs(d))
        sgn == IF d < 0 THEN -1 ELSE 1
    IN  <<sgn * (n \div g), sgn * (d \div g)>>

RZero == <<0, 1>>
ROne == <<1, 1>>

RAdd(x, y) ==
    LET g == GCD(x[2], y[2])
    IN  Rat(x[1] * (y[2] \div g) + y[1] * (x[2] \div g), (x[2] \div g) * y[2])

RNeg(x) == <<-x[1], x[2]>>
RSub(x, y) == RAdd(x, RNeg(y))

RMul(x, y) ==
    LET a == Rat(x[1], y[2])
        b == Rat(y[1], x[2])
    IN  <<a[1] * b[1], a[2] * b[2]>>

\* x / y for y > 0
RDiv(x, y) == RMul(x, <<y[2], y[1]>>)

RAbs(x) == <<Abs(x[1]), x[2]>>

RECURSIVE FracLess(_, _, _, _)
\* a/b < c/d for a, c >= 0 and b, d > 0, without forming a*d or c*b
FracLess(a, b, c, d) ==
    IF a \div b # c \div d THEN a \div b < c \div d
    ELSE IF c % d = 0 THEN FALSE
    ELSE IF a % b = 0 THEN TRUE
    ELSE FracLess(d, c % d, b, a % b)

\* x < y for x, y >= 0
RLess(x, y) == FracLess(x[1], x[2], y[1], y[2])

RECURSIVE RSum(_)
\* sum(list)
RSum(xs) == IF Len(xs) = 0 THEN RZero ELSE RAdd(Head(xs), RSum(Tail(xs)))

\* ------------------------------------------------------------------------
\* nlp_engine.TextRankSummarizer._pagerank
\* ------------------------------------------------------------------------
TOL == <<1, 100000>>

\* NormRow leaving an all-zero row as zeros
NormRow_zero(row, n) ==
    LET row_sum == RSum(row)
    IN  IF row_sum[1] > 0
        THEN [i \in 1..n |-> RDiv(row[i], row_sum)]
        ELSE [i \in 1..n |-> RZero]

\* [v / row_sum for v in row] if row_sum > 0 else [1.0 / n] * n
NormRow(row, n) ==
    LET row_sum == RSum(row)
    IN  IF row_sum[1] > 0
        THEN [i \in 1..n |-> RDiv(row[i], row_sum)]
        ELSE [i \in 1..n |-> Rat(1, n)]

\* a rank without the (1 - damping) / n term
Rank_without_base(i, n, d, nm, sc) ==
    RMul(d, RSum([j \in 1..n |-> RMul(nm[j][i], sc[j])]))

\* rank = (1 - damping) / n + damping * sum(norm_matrix[j][i] * scores[j] ...)
Rank(i, n, d, nm, sc) ==
    RAdd(RDiv(RSub(ROne, d), <<n, 1>>),
         RMul(d, RSum([j \in 1..n |-> RMul(nm[j][i], sc[j])])))

\* the list new_scores built by one pass of the loop body
NewScores(n, d, nm, sc) == [i \in 1..n |-> Rank(i, n, d, nm, sc)]

\* sum(abs(new_scores[i] - scores[i]) for i in range(n))
Change(n, new, old) == RSum([i \in 1..n |-> RAbs(RSub(new[i], old[i]))])

\* --- inputs ------------------------------------------------------------
MaxN == 3
MaxIter == 2

\* cosine values an entry can take
Weights == { <<0, 1>>, <<1, 2>>, <<1, 1>> }
Dampings == { <<0, 1>>, <<1, 2>>, <<17, 20>>, <<1, 1>> }

\* symmetric n x n matrices with a zero diagonal, as
\* _build_similarity_matrix makes them
SimMatrices(n) ==
    LET pairs == { <<i, j>> \in (1..n) \X (1..n) : i < j } IN
    { [i \in 1..n |-> [j \in 1..n |->
          IF i = j THEN RZero
          ELSE IF i < j THEN w[<<i, j>>] ELSE w[<<j, i>>]]]
      : w \in [pairs -> Weights] }

\* a caller enters _pagerank(matrix, damping, iterations)
P_Call ==
    /\ pc = "idle"
    /\ \E n \in 0..MaxN : matrix' \in SimMatrices(n)
    /\ damping' \in Dampings
    /\ iterations' \in 0..MaxIter
    /\ pc' = "p_init"
    /\ UNCHANGED <<norm_matrix, scores, iter_no>>
    /\ UNCHANGED notP

\* n = len(matrix); the n == 0 return; scores = [1/n]*n; norm_matrix
P_Init ==
    /\ pc = "p_init"
    /\ LET n == Len(matrix) IN
       IF n = 0
       THEN /\ scores' = <<>>
            /\ pc' = "p_done"
            /\ UNCHANGED norm_matrix
       ELSE /\ scores' = [i \in 1..n |-> Rat(1, n)]
            /\ norm_matrix' = [j \in 1..n |-> NormRow(matrix[j], n)]
            /\ pc' = "p_loop"
    /\ UNCHANGED <<matrix, damping, iterations, iter_no>>
    /\ UNCHANGED notP

\* one pass of `for _ in range(iterations)`, or the end of the loop
P_Iterate ==
    /\ pc = "p_loop"
    /\ IF iter_no < iterations
       THEN LET n == Len(matrix)
                new_scores == NewScores(n, damping, norm_matrix, scores)
            IN  /\ iter_no' = iter_no + 1
                /\ IF RLess(Change(n, new_scores, scores), TOL)
                   THEN pc' = "p_done" /\ UNCHANGED scores
                   ELSE pc' = "p_loop" /\ scores' = new_scores
       ELSE /\ pc' = "p_done"
            /\ UNCHANGED <<scores, iter_no>>
    /\ UNCHANGED <<matrix, damping, iterations, norm_matrix>>
    /\ UNCHANGED notP

NextP == P_Call \/ P_Init \/ P_Iterate

SpecP == Init /\ [][NextP]_vars

\* ------------------------------------------------------------------------
\* Properties of _pagerank
\* ------------------------------------------------------------------------

\* C10: for N >= 1 the scores sum to 1 when initialised, after every
\* power-iteration pass, and on return
C10_ScoresSumToOne ==
    (pc \in {"p_loop", "p_done"} /\ Len(matrix) >= 1) => RSum(scores) = ROne

\* a call has returned after at least one pass that changed the scores, on a
\* matrix with an all-zero row and a damping strictly between 0 and 1
C10_Witness ==
    /\ pc = "p_done"
    /\ Len(matrix) >= 2
    /\ \E j \in 1..Len(matrix) : RSum(matrix[j]) = RZero
    /\ \E j \in 1..Len(matrix) : RSum(matrix[j]) # RZero
    /\ damping \notin {RZero, ROne}
    /\ \E i \in 1..Len(scores) : scores[i] # Rat(1, Len(matrix))
    /\ RSum(scores) = ROne

\* ------------------------------------------------------------------------
\* Character classes and regular-expression helpers of nlp_engine
\* ------------------------------------------------------------------------
At(s, i) == SubSeq(s, i, i)

DIGITS == "0123456789"
DigitChars == { SubSeq(DIGITS, i, i) : i \in 1..10 }
IsDigitChar(c) == c \in DigitChars

\* \w
IsWordChar(c) == IsAlphaChar(c) \/ IsDigitChar(c) \/ c = "_"

\* [.!?]
IsEndPunct(c) == c \in {".", "!", "?"}

\* [A-Z"'(]
IsOpener(c) == IsUpperChar(c) \/ c \in {"\"", "'", "("}

\* s[0].upper() + s[1:]
CapFirst(s) == IF Len(s) = 0 THEN s ELSE UpperChar(At(s, 1)) \o SubSeq(s, 2, Len(s))

\* s[0].lower() + s[1:]
LowerFirst(s) == IF Len(s) = 0 THEN s ELSE LowerChar(At(s, 1)) \o SubSeq(s, 2, Len(s))

\* last index of the maximal run of whitespace that starts at i
SpaceRunEnd(s, i) ==
    CHOOSE j \in i..Len(s) :
        /\ \A k \in i..j : IsSpace(At(s, k))
        /\ j = Len(s) \/ ~IsSpace(At(s, j + 1))

\* last index of the maximal run of letters that starts at i
AlphaRunEnd(s, i) ==
    CHOOSE j \in i..Len(s) :
        /\ \A k \in i..j : IsAlphaChar(At(s, k))
        /\ j = Len(s) \/ ~IsAlphaChar(At(s, j + 1))

\* the position just after `sub` when `sub` occurs in s at position p, else 0
MatchAt(sub, s, p) ==
    IF p >= 1 /\ p + Len(sub) - 1 <= Len(s) /\ SubSeq(s, p, p + Len(sub) - 1) = sub
    THEN p + Len(sub) ELSE 0

\* positions at which `sub` occurs in s
Occurrences(sub, s) == { p \in 1..Len(s) : MatchAt(sub, s, p) # 0 }

RECURSIVE Join(_, _)
\* sep.join(parts)
Join(parts, sep) ==
    IF Len(parts) = 0 THEN ""
    ELSE IF Len(parts) = 1 THEN parts[1]
    ELSE parts[1] \o sep \o Join(Tail(parts), sep)

\* ------------------------------------------------------------------------
\* nlp_engine.NLPEngine.extract_sentences
\* ------------------------------------------------------------------------
MinSentenceLen == 20
MinWords == 5

\* start positions of the matches of (?<=[.!?])\s+(?=[A-Z"'(])
SplitStarts(txt) ==
    { i \in 2..Len(txt) :
        /\ IsSpace(At(txt, i))
        /\ IsEndPunct(At(txt, i - 1))
        /\ LET j == SpaceRunEnd(txt, i)
           IN  j < Len(txt) /\ IsOpener(At(txt, j + 1)) }

RECURSIVE SplitFrom(_, _, _)
SplitFrom(txt, from, starts) ==
    LET later == { i \in starts : i >= from } IN
    IF later = {} THEN << SubSeq(txt, from, Len(txt)) >>
    ELSE LET i == CHOOSE a \in later : \A b \in later : a <= b
         IN  << SubSeq(txt, from, i - 1) >>
             \o SplitFrom(txt, SpaceRunEnd(txt, i) + 1, starts)

\* raw = re.split(r'(?<=[.!?])\s+(?=[A-Z"\'(])', text)
SplitSentences(txt) == SplitFrom(txt, 1, SplitStarts(txt))

\* len(re.findall(r'\b[a-zA-Z]{2,}\b', s))
CountWords(s) ==
    Cardinality({ i \in 1..Len(s) :
        /\ IsAlphaChar(At(s, i))
        /\ i = 1 \/ ~IsWordChar(At(s, i - 1))
        /\ LET j == AlphaRunEnd(s, i)
           IN  j - i + 1 >= 2 /\ (j = Len(s) \/ ~IsWordChar(At(s, j + 1))) })

\* len(''.join(re.findall(r'[a-zA-Z]', s)))
CountAlpha(s) == Cardinality({ i \in 1..Len(s) : IsAlphaChar(At(s, i)) })

\* the loop body without its `continue` tests
KeepSentence_any(s) == TRUE

\* the three `continue` tests of the loop body, on the stripped candidate
KeepSentence(s) ==
    /\ Len(s) >= MinSentenceLen
    /\ CountWords(s) >= MinWords
    \* alpha_ratio >= 0.55
    /\ CountAlpha(s) * 100 >= 55 * Max(Len(s), 1)

RECURSIVE FilterSentences(_)
FilterSentences(raw) ==
    IF Len(raw) = 0 THEN <<>>
    ELSE LET s == Strip(Head(raw)) IN
         (IF KeepSentence(s) THEN <<s>> ELSE <<>>) \o FilterSentences(Tail(raw))

extract_sentences(txt) == FilterSentences(SplitSentences(txt))

\* ------------------------------------------------------------------------
\* nlp_engine.SentenceRewriter
\* ------------------------------------------------------------------------
CONJUNCTIONS ==
    << "And", "But", "Or", "Yet", "So", "Because", "Although", "However", "Therefore" >>

QUESTION_WORDS == << "who", "what", "where", "when", "why", "how", "which" >>

\* re.sub(r'^(And|But|...)\s+', '', s, flags=re.IGNORECASE)
StripConjunction(s) ==
    LET hits == { k \in 1..Len(CONJUNCTIONS) :
                    LET w == CONJUNCTIONS[k] IN
                    /\ Len(s) > Len(w)
                    /\ Lower(Prefix(s, Len(w))) = Lower(w)
                    /\ IsSpace(At(s, Len(w) + 1)) }
    IN  IF hits = {} THEN s
        ELSE LET k == CHOOSE a \in hits : \A b \in hits : a <= b
                 n == Len(CONJUNCTIONS[k])
             IN  SubSeq(s, SpaceRunEnd(s, n + 1) + 1, Len(s))

\* re.search(r'\b(who|what|where|when|why|how|which)\b', t, re.IGNORECASE)
HasQuestionWord(t) ==
    \E k \in 1..Len(QUESTION_WORDS) : \E p \in 1..Len(t) :
        LET w == QUESTION_WORDS[k]
            e == p + Len(w) - 1
        IN  /\ e <= Len(t)
            /\ Lower(SubSeq(t, p, e)) = w
            /\ p = 1 \/ ~IsWordChar(At(t, p - 1))
            /\ e = Len(t) \/ ~IsWordChar(At(t, e + 1))

RECURSIVE CollapsePunctRange(_, _, _)
\* what the substitution leaves of s[lo..hi], by halves
CollapsePunctRange(s, lo, hi) ==
    IF lo > hi THEN ""
    ELSE IF lo = hi
    THEN (IF IsEndPunct(At(s, lo)) /\ lo < Len(s) /\ IsEndPunct(At(s, lo + 1))
          THEN "" ELSE At(s, lo))
    ELSE LET mid == (lo + hi) \div 2
         IN  CollapsePunctRange(s, lo, mid) \o CollapsePunctRange(s, mid + 1, hi)

\* re.sub(r'([.!?]){2,}', r'\1', s): a run keeps its last character
CollapsePunct(s) == CollapsePunctRange(s, 1, Len(s))

RECURSIVE CollapseSpaceRange(_, _, _)
\* what the substitution leaves of s[lo..hi], by halves
CollapseSpaceRange(s, lo, hi) ==
    IF lo > hi THEN ""
    ELSE IF lo = hi
    THEN (IF IsSpace(At(s, lo))
          THEN (IF lo < Len(s) /\ IsSpace(At(s, lo + 1)) THEN "" ELSE " ")
          ELSE At(s, lo))
    ELSE LET mid == (lo + hi) \div 2
         IN  CollapseSpaceRange(s, lo, mid) \o CollapseSpaceRange(s, mid + 1, hi)

\* re.sub(r'\s+', ' ', s)
CollapseSpace(s) == CollapseSpaceRange(s, 1, Len(s))

rewrite_sentence(sentence) ==
    LET Recapitalised(s2) ==
            IF s2 # "" /\ IsLowerChar(At(s2, 1)) THEN CapFirst(s2) ELSE s2
        Punctuated(s3) ==
            IF s3 # "" /\ ~IsEndPunct(At(s3, Len(s3))) /\ ~HasQuestionWord(Prefix(s3, 20))
            THEN s3 \o "." ELSE s3
        Rewritten(s0) ==
            IF s0 = "" THEN s0
            ELSE Strip(CollapseSpace(CollapsePunct(
                     Punctuated(Recapitalised(StripConjunction(CapFirst(s0)))))))
    IN  Rewritten(Strip(sentence))

RECURSIVE rewrite_list(_)
\* [self.rewrite_sentence(s) for s in sentences if s.strip()]
rewrite_list(sents) ==
    IF Len(sents) = 0 THEN <<>>
    ELSE (IF Strip(Head(sents)) # "" THEN << rewrite_sentence(Head(sents)) >> ELSE <<>>)
         \o rewrite_list(Tail(sents))

Connectors(style) ==
    CASE style = "storytelling" ->
           << "", "Meanwhile, ", "Then, ", "As the story unfolds, ",
              "What follows is significant: ", "Most importantly, " >>
      [] style = "academic" ->
           << "", "This is supported by the observation that ",
              "The evidence shows that ", "Notably, ",
              "A key point is that ", "In addition, " >>
      [] OTHER ->
           << "", "Additionally, ", "Furthermore, ", "Moreover, ",
              "At the same time, ", "Importantly, " >>

\* the entry with the first letter cut off instead of lowered
ParagraphPart_cut(i, sent, conn_list) ==
    LET conn == conn_list[(i % Len(conn_list)) + 1] IN
    IF i = 0 \/ conn = "" THEN sent
    ELSE IF sent # "" /\ IsUpperChar(At(sent, 1)) /\ At(conn, Len(conn)) = " "
         THEN conn \o SubSeq(sent, 2, Len(sent))
         ELSE conn \o sent

\* the entry appended to `parts` for rewritten sentence number i (0-based)
ParagraphPart(i, sent, conn_list) ==
    LET conn == conn_list[(i % Len(conn_list)) + 1] IN
    IF i = 0 \/ conn = "" THEN sent
    ELSE IF sent # "" /\ IsUpperChar(At(sent, 1)) /\ At(conn, Len(conn)) = " "
         THEN conn \o LowerFirst(sent)
         ELSE conn \o sent

join_into_paragraph(sents, style) ==
    LET Joined(rewritten, conn_list) ==
            IF Len(rewritten) = 0 THEN ""
            ELSE IF Len(rewritten) = 1 THEN rewritten[1]
            ELSE Join(AsList([k \in 1..Len(rewritten) |->
                                 ParagraphPart(k - 1, rewritten[k], conn_list)]), " ")
    IN  Joined(rewrite_list(sents), Connectors(style))

\* ------------------------------------------------------------------------
\* nlp_engine.TextRankSummarizer.summarize
\* ------------------------------------------------------------------------
FallbackLen == 500

\* int(x) for a rational x >= 0
IntOf(x) == x[1] \div x[2]

\* the multipliers of every branch whose condition holds, multiplied together
PositionFactor_stacked(i, n) ==
    RMul(RMul(IF i = 0 THEN <<3, 2>> ELSE ROne,
              IF i = n - 1 THEN <<6, 5>> ELSE ROne),
         IF i * 10 < n THEN <<11, 10>> ELSE ROne)

\* the positional multiplier of sentence i (0-based) among n
PositionFactor(i, n) ==
    IF i = 0 THEN <<3, 2>>
    ELSE IF i = n - 1 THEN <<6, 5>>
    ELSE IF i * 10 < n THEN <<11, 10>>
    ELSE ROne

\* the loop `for i in range(n): ... scores[i] *= ...`
AdjustScores(sc) ==
    [k \in 1..Len(sc) |-> RMul(sc[k], PositionFactor(k - 1, Len(sc)))]

\* round(x) for a rational x >= 0: to the nearest integer, a half to the even one
RoundOf(x) ==
    LET f == x[1] \div x[2]
        twice == 2 * (x[1] - f * x[2])
    IN  IF twice < x[2] THEN f
        ELSE IF twice > x[2] THEN f + 1
        ELSE IF f % 2 = 0 THEN f ELSE f + 1

\* the count with N * ratio rounded instead of truncated
NumSelected_rounded(n, r, maxs, mins) ==
    Max(mins, Min(maxs, RoundOf(RMul(<<n, 1>>, r))))

\* num = max(min_sentences, min(max_sentences, int(len(sentences) * ratio)))
NumSelected(n, r, maxs, mins) ==
    Max(mins, Min(maxs, IntOf(RMul(<<n, 1>>, r))))

RECURSIVE RankFrom(_, _)
\* indices of sc by descending score; the stable sort keeps equal scores in
\* list order
RankFrom(sc, rest) ==
    IF rest = {} THEN <<>>
    ELSE LET best == CHOOSE i \in rest :
                        \A j \in rest :
                            \/ RLess(sc[j], sc[i])
                            \/ sc[j] = sc[i] /\ i <= j
         IN  <<best>> \o RankFrom(sc, rest \ {best})

\* the ranking with equal scores in reverse list order
RankOrder_later_first(sc) ==
    LET n == Len(sc)
        back == RankFrom([k \in 1..n |-> sc[n + 1 - k]], 1..n)
    IN  [k \in 1..n |-> n + 1 - back[k]]

\* [idx for idx, _ in sorted(enumerate(scores), key=lambda x: x[1], reverse=True)]
RankOrder(sc) == RankFrom(sc, 1..Len(sc))

RECURSIVE SortedBetween(_, _, _)
\* the members of S within lo..hi in increasing order, by halves
SortedBetween(S, lo, hi) ==
    IF lo > hi THEN <<>>
    ELSE IF lo = hi THEN (IF lo \in S THEN <<lo>> ELSE <<>>)
    ELSE LET mid == (lo + hi) \div 2
         IN  SortedBetween(S, lo, mid) \o SortedBetween(S, mid + 1, hi)

\* sorted(S) for a set of positive integers
SortedSeq(S) ==
    IF S = {} THEN <<>>
    ELSE SortedBetween(S, 1, CHOOSE m \in S : \A b \in S : b <= m)

\* the selection left in rank order: the sort forgotten
TopIndices_unsorted(sc, num) == Prefix(RankOrder(sc), num)

\* top_indices = sorted([idx for idx, _ in indexed[:num]])
TopIndices(sc, num) == SortedSeq(Range(Prefix(RankOrder(sc), num)))

\* selected = [sentences[i] for i in top_indices]
Selected(sents, idxs) == [k \in 1..Len(idxs) |-> sents[idxs[k]]]

\* --- inputs ------------------------------------------------------------
Segments ==
    << "the farmer walked across the green field.",
       "But his daughter carried the heavy basket.",
       "The market was crowded  with people!!",
       "And so the river runs beside the road.",
       "A B C.",
       "Everyone trusted the honest farmer afterwards.",
       "What did the merchant say about it",
       "Nobody knew why the old bridge had fallen." >>

MaxSegs == 7
MaxScore == 2

\* a document: n consecutive segments of the cycle, starting at segment off
Document(off, n) ==
    Join([k \in 1..n |-> Segments[((off + k - 2) % Len(Segments)) + 1]], " ")

MaxCopies == 30

\* a page that repeats one short sentence: no sentence of it passes the filter
ShortPage(n) == Join([k \in 1..n |-> "Tom Ray was here."], " ")

\* a page with blank margins, a sentence that is mostly digits and one of
\* three words between two sentences of prose
ODD_PAGE ==
    "  The old farmer sold 1234567890 and 9876543210 eggs for 55. Maria walked to the old market today. It cost 12345678901234567890 then. Nobody knew why the bridge had fallen.  "

Texts ==
    { Document(off, n) : off \in 1..Len(Segments), n \in 0..MaxSegs }
    \cup { ShortPage(n) : n \in { 1, MaxCopies } }
    \cup { ODD_PAGE }

Ratios == { <<7, 20>>, <<1, 2>>, <<1, 1>> }
\* <<max_sentences, min_sentences>>: the defaults, and a tight pair
Limits == { <<8, 3>>, <<2, 1>> }

\* what _pagerank can return for n sentences, in units that keep the order:
\* any positive scores
RankScores(n) == [1..n -> { <<k, 1>> : k \in 1..MaxScore }]

\* a caller enters summarize(text, ratio, max_sentences, min_sentences)
S_Call ==
    /\ pc = "idle"
    /\ text' \in Texts
    /\ ratio' \in Ratios
    /\ \E lim \in Limits : max_sentences' = lim[1] /\ min_sentences' = lim[2]
    /\ pc' = "s_extract"
    /\ UNCHANGED <<sentences, rank_scores, top_indices, summary>>
    /\ UNCHANGED notS

\* sentences = extract_sentences(text) and the two early returns
\* the first early return without its slice: the whole text handed back
S_Extract_whole_text ==
    /\ pc = "s_extract"
    /\ LET sents == extract_sentences(text) IN
       /\ sentences' = sents
       /\ IF Len(sents) = 0
          THEN summary' = text /\ pc' = "s_done"
          ELSE IF Len(sents) <= min_sentences
          THEN summary' = join_into_paragraph(sents, "neutral") /\ pc' = "s_done"
          ELSE UNCHANGED summary /\ pc' = "s_rank"
    /\ UNCHANGED <<text, ratio, max_sentences, min_sentences, rank_scores, top_indices>>
    /\ UNCHANGED notS

S_Extract ==
    /\ pc = "s_extract"
    /\ LET sents == extract_sentences(text) IN
       /\ sentences' = sents
       /\ IF Len(sents) = 0
          THEN summary' = Prefix(text, FallbackLen) /\ pc' = "s_done"
          ELSE IF Len(sents) <= min_sentences
          THEN summary' = join_into_paragraph(sents, "neutral") /\ pc' = "s_done"
          ELSE UNCHANGED summary /\ pc' = "s_rank"
    /\ UNCHANGED <<text, ratio, max_sentences, min_sentences, rank_scores, top_indices>>
    /\ UNCHANGED notS

\* scores = self._pagerank(matrix), then the positional multipliers
S_Rank ==
    /\ pc = "s_rank"
    /\ \E sc \in RankScores(Len(sentences)) : rank_scores' = AdjustScores(sc)
    /\ pc' = "s_select"
    /\ UNCHANGED <<text, ratio, max_sentences, min_sentences, sentences, top_indices, summary>>
    /\ UNCHANGED notS

\* the selection joined in an order the random source decides
S_Select_random_order ==
    /\ pc = "s_select"
    /\ LET num == NumSelected(Len(sentences), ratio, max_sentences, min_sentences)
           idxs == TopIndices(rank_scores, num)
           order == IF rng = "reverse"
                    THEN [k \in 1..Len(idxs) |-> idxs[Len(idxs) + 1 - k]]
                    ELSE idxs
       IN  /\ top_indices' = idxs
           /\ summary' = join_into_paragraph(Selected(sentences, order), "neutral")
    /\ pc' = "s_done"
    /\ UNCHANGED <<text, ratio, max_sentences, min_sentences, sentences, rank_scores>>
    /\ UNCHANGED notS

\* num, indexed, top_indices, selected and the returned paragraph
S_Select ==
    /\ pc = "s_select"
    /\ LET num == NumSelected(Len(sentences), ratio, max_sentences, min_sentences)
           idxs == TopIndices(rank_scores, num)
       IN  /\ top_indices' = idxs
           /\ summary' = join_into_paragraph(Selected(sentences, idxs), "neutral")
    /\ pc' = "s_done"
    /\ UNCHANGED <<text, ratio, max_sentences, min_sentences, sentences, rank_scores>>
    /\ UNCHANGED notS

NextS == S_Call \/ S_Extract \/ S_Rank \/ S_Select

SpecS == Init /\ [][NextS]_vars

\* --- properties of summarize ---------------------------------------------
\* the two shapes a rewritten sentence takes inside a paragraph: as rewritten,
\* or with its first letter lowered after a connector
Forms(r) == { r, LowerFirst(r) }

\* positions of s, from `from` on, at which sentence r stands in either shape
Stands(r, s, from) ==
    LET fs == Forms(r) IN
    { p \in from..Len(s) : \E f \in fs : MatchAt(f, s, p) # 0 }

RECURSIVE InOrderFrom(_, _, _)
\* the sentences rs can be read off s one after the other, left to right
InOrderFrom(rs, s, from) ==
    IF Len(rs) = 0 THEN TRUE
    ELSE LET ps == Stands(rs[1], s, from) IN
         /\ ps # {}
         /\ LET p == CHOOSE q \in ps : \A q2 \in ps : q <= q2
            IN  InOrderFrom(Tail(rs), s, p + Len(rs[1]))

\* every sentence of rs stands in s at exactly one position
EachOnce(rs, s) ==
    \A k \in 1..Len(rs) : Cardinality(Stands(rs[k], s, 1)) = 1

StrictlyIncreasing(idxs) ==
    \A a, b \in 1..Len(idxs) : a < b => idxs[a] < idxs[b]

Ranked == pc = "s_done" /\ Len(sentences) > min_sentences

\* C2: when more than min_sentences sentences were extracted, the selected
\* indices are strictly increasing, and the selected sentences can be read off
\* the summary in that order, each standing in it exactly once
C2_DocumentOrder ==
    Ranked =>
        /\ StrictlyIncreasing(top_indices)
        /\ \A k \in 1..Len(top_indices) : top_indices[k] \in 1..Len(sentences)
        /\ LET rs == rewrite_list(Selected(sentences, top_indices)) IN
           /\ InOrderFrom(rs, summary, 1)
           /\ EachOnce(rs, summary)

\* a summary whose selection was ranked in an order other than document order
C2_Witness ==
    /\ Ranked
    /\ Len(top_indices) >= 2
    /\ Len(top_indices) < Len(sentences)
    /\ Prefix(RankOrder(rank_scores), Len(top_indices)) # top_indices
    /\ InOrderFrom(rewrite_list(Selected(sentences, top_indices)), summary, 1)

\* C8 as stated: the number of selected sentences is N * ratio rounded to the
\* nearest integer, then clamped to [min_sentences, max_sentences]
C8_RoundedCount ==
    Ranked =>
        Len(top_indices) =
            Max(min_sentences,
                Min(max_sentences, RoundOf(RMul(<<Len(sentences), 1>>, ratio))))

\* C8 amended: the number of selected sentences is N * ratio truncated to the
\* integer t with t <= N * ratio < t + 1, then clamped
C8_TruncatedCount ==
    Ranked =>
        \E t \in 0..Len(sentences) :
            /\ t * ratio[2] <= Len(sentences) * ratio[1]
            /\ Len(sentences) * ratio[1] < (t + 1) * ratio[2]
            /\ Len(top_indices) = Max(min_sentences, Min(max_sentences, t))
            /\ Cardinality(Range(top_indices)) = Len(top_indices)

\* a summary whose count is the truncated one and differs from the rounded one
C8_Witness ==
    /\ Ranked
    /\ Len(top_indices) = IntOf(RMul(<<Len(sentences), 1>>, ratio))
    /\ Len(top_indices) <
           Min(max_sentences, RoundOf(RMul(<<Len(sentences), 1>>, ratio)))

\* C9: when between 1 and min_sentences sentences were extracted, every one of
\* them, rewritten, can be read off the returned paragraph in document order,
\* each standing in it exactly once, and no selection was made
C9_FallbackKeepsAll ==
    (pc = "s_done" /\ Len(sentences) >= 1 /\ Len(sentences) <= min_sentences) =>
        /\ InOrderFrom(rewrite_list(sentences), summary, 1)
        /\ EachOnce(rewrite_list(sentences), summary)
        /\ top_indices = <<>>

\* a fallback paragraph of three sentences, one of which lost a conjunction
C9_Witness ==
    /\ pc = "s_done"
    /\ Len(sentences) = 3
    /\ min_sentences = 3
    /\ rewrite_list(sentences) # sentences
    /\ \E k \in 2..3 : Occurrences(rewrite_list(sentences)[k], summary) = {}
    /\ InOrderFrom(rewrite_list(sentences), summary, 1)

\* ------------------------------------------------------------------------
\* nlp_engine.NLPEngine.tokenize, get_keywords
\* ------------------------------------------------------------------------
RECURSIVE Concat(_)
\* the lists of a list of lists, one after the other
Concat(lists) ==
    IF Len(lists) = 0 THEN <<>> ELSE Head(lists) \o Concat(Tail(lists))

\* last index of the maximal run of non-whitespace that starts at i
SolidRunEnd(s, i) ==
    CHOOSE j \in i..Len(s) :
        /\ \A k \in i..j : ~IsSpace(At(s, k))
        /\ j = Len(s) \/ IsSpace(At(s, j + 1))

\* the positions at which a word of s.split() starts
WordStarts(s) ==
    { i \in 1..Len(s) : ~IsSpace(At(s, i)) /\ (i = 1 \/ IsSpace(At(s, i - 1))) }

\* s.split()
Words(s) ==
    LET starts == SortedSeq(WordStarts(s))
    IN  AsList([k \in 1..Len(starts) |-> SubSeq(s, starts[k], SolidRunEnd(s, starts[k]))])

\* len(s.split())
WordCount(s) == Cardinality(WordStarts(s))

\* the positions at which re.findall(r'\b[a-zA-Z]+\b', s) finds a token
TokenStarts(s) ==
    { i \in 1..Len(s) :
        /\ IsAlphaChar(At(s, i))
        /\ i = 1 \/ ~IsWordChar(At(s, i - 1))
        /\ LET j == AlphaRunEnd(s, i)
           IN  j = Len(s) \/ ~IsWordChar(At(s, j + 1)) }

\* re.findall(r'\b[a-zA-Z]+\b', text.lower())
tokenize(txt) ==
    LET low == Lower(txt)
        starts == SortedSeq(TokenStarts(low))
    IN  AsList([k \in 1..Len(starts) |-> SubSeq(low, starts[k], AlphaRunEnd(low, starts[k]))])

\* 10^6 * math.log(n), n = 1..20
LOG_MICRO ==
    << 0, 693147, 1098612, 1386294, 1609438, 1791759, 1945910, 2079442, 2197225,
       2302585, 2397895, 2484907, 2564949, 2639057, 2708050, 2772589, 2833213,
       2890372, 2944439, 2995732 >>

\* length_bonus = math.log(len(word)) if len(word) > 4 else 1.0, times 10^6
LengthBonus(word) ==
    IF Len(word) > 4 THEN LOG_MICRO[Min(Len(word), Len(LOG_MICRO))] ELSE 1000000

\* the keys of the dict tf, in insertion order
FirstOccurrences(tokens) ==
    LET first(k) == \A j \in 1..(k - 1) : tokens[j] # tokens[k]
        kept == SelectSeq([k \in 1..Len(tokens) |-> k], first)
    IN  AsList([k \in 1..Len(kept) |-> tokens[kept[k]]])

\* indices by descending key; the stable sort keeps equal keys in list order
DescendingOrder(keys) ==
    LET n == Len(keys)
        place == AsList([i \in 1..n |->
                    1 + Cardinality({ j \in 1..n :
                            keys[j] > keys[i] \/ (keys[j] = keys[i] /\ j < i) })])
    IN  AsList([k \in 1..n |-> CHOOSE i \in 1..n : place[i] = k])

\* tokens = [t for t in tokens if t not in self.STOPWORDS and len(t) > 3]
IsKeywordToken(t) == t \notin STOPWORDS /\ Len(t) > 3

\* tf[word] for every word of `words`
TermCounts(tokens, words) ==
    AsList([k \in 1..Len(words) |->
               Cardinality({ j \in 1..Len(tokens) : tokens[j] = words[k] })])

\* the words by descending score; every score carries the same divisor
\* `total`, so count * length_bonus orders them
ByScore(words, counts) ==
    LET score == AsList([k \in 1..Len(words) |-> counts[k] * LengthBonus(words[k])])
        order == DescendingOrder(score)
    IN  AsList([k \in 1..Len(words) |-> words[order[k]]])

KeywordsOf(tokens, words, top_n) == Prefix(ByScore(words, TermCounts(tokens, words)), top_n)

KeywordsFrom(tokens, top_n) == KeywordsOf(tokens, FirstOccurrences(tokens), top_n)

\* the words of get_keywords(text, top_n), best first
get_keywords(txt, top_n) == KeywordsFrom(SelectSeq(tokenize(txt), IsKeywordToken), top_n)

\* ------------------------------------------------------------------------
\* nlp_engine.TextRankSummarizer.summarize_with_structure
\* ------------------------------------------------------------------------
\* summarize(text, ratio, max_sentences, min_sentences) as a function of its
\* arguments and of the scores `raw` that _pagerank returns
summarize(txt, r, maxs, mins, raw) ==
    LET Summary(sents) ==
            IF Len(sents) = 0 THEN Prefix(txt, FallbackLen)
            ELSE IF Len(sents) <= mins THEN join_into_paragraph(sents, "neutral")
            ELSE join_into_paragraph(
                     Selected(sents, TopIndices(AdjustScores(raw),
                                                NumSelected(Len(sents), r, maxs, mins))),
                     "neutral")
    IN  Summary(extract_sentences(txt))

\* s occurs in t: `s in t`
Contains(t, s) == \E p \in 1..(Len(t) - Len(s) + 1) : MatchAt(s, t, p) # 0

DefaultMinSentences == 3
StructureRatio == <<3, 10>>
StructureMaxSentences == 6
RankedFactsFrom == 5
MaxKeyFacts == 6
StructureTopN == 15
MaxKeywords == 10

SKIP_WORDS ==
    { "said", "asked", "know", "just", "like", "want", "came", "went",
      "took", "back", "could", "would", "should", "been", "have", "this", "that" }

POSITIVE_WORDS ==
    << "good", "great", "excellent", "success", "happy", "wonderful",
       "beautiful", "positive", "achieve", "win", "love", "joy" >>

NEGATIVE_WORDS ==
    << "fail", "bad", "poor", "loss", "sad", "angry", "wrong",
       "stolen", "problem", "crisis", "fear", "terrible" >>

DEFAULT_THEME == "General Document"

\* sum(1 for w in words if w in tl)
CountContained(words, tl) == Cardinality({ k \in 1..Len(words) : Contains(tl, words[k]) })

\* 'Positive' if pos > neg else ('Negative' if neg > pos else 'Neutral')
Sentiment(txt) ==
    LET tl == Lower(txt)
        pos == CountContained(POSITIVE_WORDS, tl)
        neg == CountContained(NEGATIVE_WORDS, tl)
    IN  IF pos > neg THEN "Positive" ELSE IF neg > pos THEN "Negative" ELSE "Neutral"

summarize_with_structure(txt, raw) ==
    LET sents == extract_sentences(txt)
        kw_words == get_keywords(txt, StructureTopN)
        core == summarize(txt, StructureRatio, StructureMaxSentences,
                          DefaultMinSentences, raw)
        key_facts ==
            IF Len(sents) >= RankedFactsFrom
            THEN rewrite_list(Selected(sents, Prefix(RankOrder(raw), MaxKeyFacts)))
            ELSE rewrite_list(Prefix(sents, 5))
        topical(k) == k \notin SKIP_WORDS /\ Len(k) > 4
        topic_words == SelectSeq(kw_words, topical)
    IN  [ core_summary |-> core,
          key_facts |-> key_facts,
          main_theme |-> IF Len(topic_words) > 0 THEN CapFirst(topic_words[1])
                         ELSE DEFAULT_THEME,
          keywords |-> Prefix(kw_words, MaxKeywords),
          sentiment |-> Sentiment(txt),
          sentence_count |-> Len(sents),
          word_count |-> WordCount(txt) ]

\* the scores _pagerank is taken to return for n sentences: all equal, rising
\* with the position, or falling with it
RankProfiles(n) ==
    { [i \in 1..n |-> <<1, 1>>], [i \in 1..n |-> <<i, 1>>], [i \in 1..n |-> <<n + 1 - i, 1>>] }

\* ------------------------------------------------------------------------
\* nlp_engine.SmartQuizGenerator: the sub-generators
\* ------------------------------------------------------------------------
Reverse(lst) == AsList([k \in 1..Len(lst) |-> lst[Len(lst) + 1 - k]])

\* random.shuffle(lst) under the random source rnd: one of three arrangements
Shuffle(rnd, lst) ==
    IF Len(lst) < 2 THEN lst
    ELSE IF rnd = "reverse" THEN Reverse(lst)
    ELSE IF rnd = "rotate" THEN Tail(lst) \o <<Head(lst)>>
    ELSE lst

\* indices by ascending key; the stable sort keeps equal keys in list order
AscendingOrder(keys) ==
    LET n == Len(keys)
        place == AsList([i \in 1..n |->
                    1 + Cardinality({ j \in 1..n :
                            keys[j] < keys[i] \/ (keys[j] = keys[i] /\ j < i) })])
    IN  AsList([k \in 1..n |-> CHOOSE i \in 1..n : place[i] = k])

COMPREHENSION_QUESTION ==
    "According to the text, which of the following statements is most accurate?"

\* pool = [s for s in all_sents if s[:40] not in used and 8 <= len(s.split()) <= 35]
ComprehensionPool(key_sentences, all_sents) ==
    LET used == { Prefix(key_sentences[k], 40) : k \in 1..Len(key_sentences) }
        free(snt) == Prefix(snt, 40) \notin used /\ WordCount(snt) >= 8 /\ WordCount(snt) <= 35
    IN  SelectSeq(all_sents, free)

\* one pass of the loop `for correct in key_sentences[:3]`
ComprehensionFor(fact, pool, theme, lvl, rnd) ==
    IF WordCount(fact) < 7 THEN <<>>
    ELSE LET gap == AsList([k \in 1..Len(pool) |->
                               Abs(WordCount(pool[k]) - WordCount(fact))])
             order == AscendingOrder(gap)
             similar == AsList([k \in 1..Len(pool) |-> pool[order[k]]])
             distractors == Prefix(similar, 3)
         IN  IF Len(distractors) < 2 THEN <<>>
             ELSE << [ type |-> "mcq",
                       question |-> COMPREHENSION_QUESTION,
                       options |-> Shuffle(rnd, <<fact>> \o Prefix(distractors, 3)),
                       answer |-> fact,
                       explanation |-> "This is a key point from the document about "
                                       \o theme \o ".",
                       difficulty |-> lvl,
                       topic |-> theme,
                       quality_score |-> 3 ] >>

comprehension_mcq(key_sentences, all_sents, theme, lvl, rnd) ==
    LET pool == ComprehensionPool(key_sentences, all_sents)
    IN  Concat([k \in 1..Min(3, Len(key_sentences)) |->
                   ComprehensionFor(key_sentences[k], pool, theme, lvl, rnd)])

ACTION_WORDS ==
    { "said", "told", "asked", "replied", "went", "came", "took", "gave",
      "rode", "found", "refused", "believed", "knew", "heard", "felt",
      "discovered", "revealed", "decided", "realized", "created", "saved",
      "returned", "stole", "stolen", "trusted", "proved", "showed", "visited" }

BLANK == "___________"

RECURSIVE AlnumBetween(_, _, _)
\* the letters and digits of s[lo..hi], by halves
AlnumBetween(s, lo, hi) ==
    IF lo > hi THEN ""
    ELSE IF lo = hi
    THEN (IF IsAlphaChar(At(s, lo)) \/ IsDigitChar(At(s, lo)) THEN At(s, lo) ELSE "")
    ELSE LET mid == (lo + hi) \div 2
         IN  AlnumBetween(s, lo, mid) \o AlnumBetween(s, mid + 1, hi)

\* re.sub(r'[^a-zA-Z0-9]', '', word)
AlnumOnly(word) == AlnumBetween(word, 1, Len(word))

\* s.endswith(suffix)
EndsWith(s, suffix) ==
    Len(s) >= Len(suffix) /\ SubSeq(s, Len(s) - Len(suffix) + 1, Len(s)) = suffix

\* the score with the bonus for a capital given at every place in the sentence
BlankScore_capital_anywhere(words, i) ==
    LET word == words[i]
        cleaned == AlnumOnly(word)
    IN  IF \/ Len(cleaned) < 3
           \/ Lower(cleaned) \in STOPWORDS
           \/ EndsWith(word, "'s") \/ EndsWith(word, "s'")
        THEN -1
        ELSE (IF IsUpperChar(At(cleaned, 1)) THEN 4 ELSE 0)
             + (IF Lower(cleaned) \in ACTION_WORDS THEN 3 ELSE 0)
             + (IF Len(cleaned) >= 5 THEN 2 ELSE 0)
             + (IF IsDigitChar(At(cleaned, 1)) THEN 2 ELSE 0)

\* the score of words[i] as a blank, -1 when the loop skips the word
BlankScore(words, i) ==
    LET word == words[i]
        cleaned == AlnumOnly(word)
    IN  IF \/ Len(cleaned) < 3
           \/ Lower(cleaned) \in STOPWORDS
           \/ EndsWith(word, "'s") \/ EndsWith(word, "s'")
        THEN -1
        ELSE (IF IsUpperChar(At(cleaned, 1)) /\ 1 < i /\ i < Len(words) THEN 4 ELSE 0)
             + (IF Lower(cleaned) \in ACTION_WORDS THEN 3 ELSE 0)
             + (IF Len(cleaned) >= 5 THEN 2 ELSE 0)
             + (IF IsDigitChar(At(cleaned, 1)) THEN 2 ELSE 0)

\* one pass of the loop `for sent in key_sentences[:5]`
FillBlankFor(sent, lvl) ==
    LET words == Words(sent) IN
    IF Len(words) < 8 THEN <<>>
    ELSE LET score == AsList([i \in 1..Len(words) |-> BlankScore(words, i)])
             best_score == Max(0, CHOOSE m \in Range(score) :
                                     \A i \in 1..Len(score) : score[i] <= m)
         IN  IF best_score < 2 THEN <<>>
             ELSE LET best_idx == CHOOSE i \in 1..Len(words) :
                                     /\ score[i] = best_score
                                     /\ \A j \in 1..(i - 1) : score[j] # best_score
                      best_word == AlnumOnly(words[best_idx])
                      blanked == AsList([i \in 1..Len(words) |->
                                            IF i = best_idx THEN BLANK ELSE words[i]])
                  IN  << [ type |-> "fill_blank",
                           question |-> "Complete the sentence:\n\""
                                        \o Join(blanked, " ") \o "\"",
                           answer |-> best_word,
                           hint |-> ToString(Len(best_word)) \o " letters, starts with \""
                                    \o UpperChar(At(best_word, 1)) \o "\"",
                           explanation |-> "The original sentence: \"" \o sent \o "\"",
                           difficulty |-> IF best_score <= 3 THEN "beginner" ELSE lvl,
                           topic |-> "document comprehension",
                           quality_score |-> best_score ] >>

smart_fill_blank(key_sentences, lvl) ==
    Concat([k \in 1..Min(5, Len(key_sentences)) |-> FillBlankFor(key_sentences[k], lvl)])

\* the antonyms dict, in insertion order
ANTONYMS ==
    << <<"before", "after">>, <<"after", "before">>, <<"first", "last">>,
       <<"last", "first">>, <<"found", "lost">>, <<"lost", "found">>,
       <<"gave", "took">>, <<"took", "gave">>, <<"agreed", "refused">>,
       <<"refused", "agreed">>, <<"began", "ended">>, <<"ended", "began">>,
       <<"returned", "stole">>, <<"stole", "returned">>, <<"trusted", "doubted">>,
       <<"guilty", "innocent">>, <<"innocent", "guilty">>, <<"healthy", "sick">>,
       <<"stronger", "weaker">>, <<"weaker", "stronger">>, <<"honest", "dishonest">>,
       <<"poor", "rich">>, <<"rich", "poor">> >>

\* s with the n characters from position p on replaced by new
ReplaceAt(s, p, n, new) == SubSeq(s, 1, p - 1) \o new \o SubSeq(s, p + n, Len(s))

\* positions matched by re.search(r'\b' + word + r'\b', s, re.IGNORECASE)
WordHits(word, s) ==
    { p \in 1..(Len(s) - Len(word) + 1) :
        /\ Lower(SubSeq(s, p, p + Len(word) - 1)) = word
        /\ p = 1 \/ ~IsWordChar(At(s, p - 1))
        /\ p + Len(word) > Len(s) \/ ~IsWordChar(At(s, p + Len(word))) }

\* re.sub(r'\b' + word + r'\b', opposite, sent, count=1, flags=re.IGNORECASE)
SwapWord(word, opposite, sent) ==
    LET hits == WordHits(word, sent) IN
    IF hits = {} THEN sent
    ELSE ReplaceAt(sent, CHOOSE p \in hits : \A p2 \in hits : p <= p2, Len(word), opposite)

\* last index of the maximal run of lower-case letters that starts at i
LowerRunEnd(s, i) ==
    CHOOSE j \in i..Len(s) :
        /\ \A k \in i..j : IsLowerChar(At(s, k))
        /\ j = Len(s) \/ ~IsLowerChar(At(s, j + 1))

\* the positions at which re.findall(r'\b[A-Z][a-z]{2,}\b', s) finds a name
NameStarts(s) ==
    { i \in 1..(Len(s) - 2) :
        /\ IsUpperChar(At(s, i))
        /\ i = 1 \/ ~IsWordChar(At(s, i - 1))
        /\ IsLowerChar(At(s, i + 1))
        /\ LET j == LowerRunEnd(s, i + 1)
           IN  j - i >= 2 /\ (j = Len(s) \/ ~IsWordChar(At(s, j + 1))) }

\* re.findall(r'\b[A-Z][a-z]{2,}\b', s)
Names(s) ==
    LET starts == SortedSeq(NameStarts(s))
    IN  AsList([k \in 1..Len(starts) |->
                   SubSeq(s, starts[k], LowerRunEnd(s, starts[k] + 1))])

\* sent.replace(old, new, 1)
ReplaceFirst(sent, old, new) ==
    LET hits == Occurrences(old, sent) IN
    IF hits = {} THEN sent
    ELSE ReplaceAt(sent, CHOOSE p \in hits : \A p2 \in hits : p <= p2, Len(old), new)

\* unique_names = list(set(all_names)): the set in one of the orders its
\* iteration can take
UniqueNames(key_sentences, rnd) ==
    Shuffle(rnd, FirstOccurrences(
        Concat([k \in 1..Len(key_sentences) |-> Names(key_sentences[k])])))

\* the text of the false statement made from sent, or sent when none is made
Mutated(sent, unique_names) ==
    LET swaps == { k \in 1..Len(ANTONYMS) :
                     /\ WordHits(ANTONYMS[k][1], sent) # {}
                     /\ SwapWord(ANTONYMS[k][1], ANTONYMS[k][2], sent) # sent }
    IN  IF swaps # {}
        THEN LET k == CHOOSE a \in swaps : \A b \in swaps : a <= b
             IN  SwapWord(ANTONYMS[k][1], ANTONYMS[k][2], sent)
        ELSE IF Len(unique_names) >= 2
        THEN LET sent_names == Names(sent)
                 absent(n) == ~InList(n, sent_names)
                 others == SelectSeq(unique_names, absent)
             IN  IF Len(sent_names) > 0 /\ Len(others) > 0
                 THEN ReplaceFirst(sent, sent_names[1], others[1])
                 ELSE sent
        ELSE sent

\* one pass of the loop `for sent in key_sentences[:4]`
TrueFalseFor(sent, unique_names, lvl) ==
    LET mutated == Mutated(sent, unique_names) IN
    << [ type |-> "true_false",
         question |-> "True or False: \"" \o sent \o "\"",
         answer |-> "True",
         explanation |-> "This statement is directly supported by the text.",
         difficulty |-> "beginner",
         topic |-> "reading comprehension",
         quality_score |-> 2 ] >>
    \o (IF mutated # sent
        THEN << [ type |-> "true_false",
                  question |-> "True or False: \"" \o mutated \o "\"",
                  answer |-> "False",
                  explanation |-> "The correct version is: \"" \o sent \o "\"",
                  difficulty |-> lvl,
                  topic |-> "reading comprehension",
                  quality_score |-> 3 ] >>
        ELSE <<>>)

semantic_true_false(key_sentences, lvl, rnd) ==
    LET unique_names == UniqueNames(key_sentences, rnd)
    IN  Prefix(Concat([k \in 1..Min(4, Len(key_sentences)) |->
                          TrueFalseFor(key_sentences[k], unique_names, lvl)]), 6)

\* causal_pairs: the connective, and whether the pattern allows commas around it
CAUSAL_PAIRS ==
    << <<"because", FALSE>>, <<"therefore", FALSE>>, <<"thus", FALSE>>,
       <<"as a result", TRUE>>, <<"led to", FALSE>>, <<"so that", FALSE>> >>

ShortLen == 70
OptionLen == 120

\* the optional comma `,?` of the 'as a result' pattern, tried at position p
SkipComma(sent, p, commas) == IF commas /\ At(sent, p) = "," THEN p + 1 ELSE p

\* the ends e of a group 1 = sent[1..e] for which the rest of the pattern
\* (.+?),?\s+keyword,?\s+(.+) matches with a group 2 that is not blank
CausalEnds(sent, keyword, commas) ==
    LET RestAt(c) ==
            /\ c <= Len(sent) /\ IsSpace(At(sent, c))
            /\ SpaceRunEnd(sent, c) < Len(sent)
        KeywordAt(r, b) ==
            /\ b <= Len(sent)
            /\ Lower(SubSeq(sent, r + 1, b - 1)) = keyword
            /\ RestAt(SkipComma(sent, b, commas))
        KeywordAfter(r) == KeywordAt(r, r + Len(keyword) + 1)
        GapAt(a) ==
            /\ a <= Len(sent) /\ IsSpace(At(sent, a))
            /\ KeywordAfter(SpaceRunEnd(sent, a))
    IN  { e \in 1..(Len(sent) - 1) : GapAt(SkipComma(sent, e + 1, commas)) }

\* m.group(1).strip() and m.group(2).strip() of re.match(pattern, sent), where
\* the lazy group 1 takes the least end; <<>> when there is no such match
CausalParts(sent, keyword, commas) ==
    LET PartsAt(e, c) ==
            << Strip(SubSeq(sent, 1, e)),
               Strip(SubSeq(sent, SpaceRunEnd(sent, c) + 1, Len(sent))) >>
        KeywordEnd(a) == SpaceRunEnd(sent, a) + Len(keyword) + 1
        PartsFrom(e) ==
            PartsAt(e, SkipComma(sent, KeywordEnd(SkipComma(sent, e + 1, commas)), commas))
        Least(ends) ==
            IF ends = {} THEN <<>>
            ELSE PartsFrom(CHOOSE x \in ends : \A y \in ends : x <= y)
    IN  Least(CausalEnds(sent, keyword, commas))

\* part[:70] + ('...' if len(part) > 70 else '')
Shortened(part) == Prefix(part, ShortLen) \o (IF Len(part) > ShortLen THEN "..." ELSE "")

\* others = [s[:120] for s in all_sents if s != sent and len(s.split()) >= 6][:3]
CausalOthers(sent, all_sents) ==
    LET other(snt) == snt # sent /\ WordCount(snt) >= 6
        Cut(picked) == AsList([k \in 1..Len(picked) |-> Prefix(picked[k], OptionLen)])
    IN  Cut(Prefix(SelectSeq(all_sents, other), 3))

\* the connectives, by index, with which sent yields a question
CausalUsable(sent, all_sents) ==
    LET Long(parts) ==
            /\ parts # <<>>
            /\ WordCount(parts[1]) >= 3 /\ WordCount(parts[2]) >= 3
    IN  { k \in 1..Len(CAUSAL_PAIRS) :
            /\ Long(CausalParts(sent, CAUSAL_PAIRS[k][1], CAUSAL_PAIRS[k][2]))
            /\ Len(CausalOthers(sent, all_sents)) >= 2 }

\* one pass of the loop `for sent in all_sents`
CausalFor(sent, all_sents, lvl, rnd) ==
    LET Question(keyword, parts, others) ==
            LET forward == keyword \in {"because", "thus", "therefore", "so that"}
                answer == Prefix(IF forward THEN parts[2] ELSE parts[1], OptionLen)
            IN  [ type |-> "mcq",
                  question |->
                      IF forward
                      THEN "According to the text, what is the result of: \""
                           \o Shortened(parts[1]) \o "\"?"
                      ELSE "According to the text, what caused: \""
                           \o Shortened(parts[2]) \o "\"?",
                  options |-> Shuffle(rnd, <<answer>> \o others),
                  answer |-> answer,
                  explanation |-> "The full sentence: \"" \o sent \o "\"",
                  difficulty |-> lvl,
                  topic |-> "causal reasoning",
                  quality_score |-> 4 ]
        With(k) ==
            Question(CAUSAL_PAIRS[k][1],
                     CausalParts(sent, CAUSAL_PAIRS[k][1], CAUSAL_PAIRS[k][2]),
                     CausalOthers(sent, all_sents))
        First(usable) ==
            IF usable = {} THEN <<>>
            ELSE << With(CHOOSE a \in usable : \A b \in usable : a <= b) >>
    IN  First(CausalUsable(sent, all_sents))

causal_questions(all_sents, lvl, rnd) ==
    Prefix(Concat([k \in 1..Len(all_sents) |->
                      CausalFor(all_sents[k], all_sents, lvl, rnd)]), 3)

\* one pass of the loop `for kw in keywords[:4]`
KeywordFor(kw, key_sentences, lvl, rnd) ==
    LET kw_lower == Lower(kw)
        long(snt) == WordCount(snt) >= 8
        with(snt) == long(snt) /\ Contains(Lower(snt), kw_lower)
        without(snt) == long(snt) /\ ~Contains(Lower(snt), kw_lower)
        containing == SelectSeq(key_sentences, with)
        not_containing == SelectSeq(key_sentences, without)
    IN  IF Len(containing) = 0 \/ Len(not_containing) < 2 THEN <<>>
        ELSE << [ type |-> "mcq",
                  question |-> "The text uses the word \"" \o kw
                               \o "\". Which sentence best shows how it is used?",
                  options |-> Shuffle(rnd, <<containing[1]>> \o Prefix(not_containing, 3)),
                  answer |-> containing[1],
                  explanation |-> "\"" \o kw \o "\" appears in context: \""
                                  \o containing[1] \o "\"",
                  difficulty |-> lvl,
                  topic |-> "vocabulary in context",
                  quality_score |-> 3 ] >>

keyword_context_questions(key_sentences, keywords, lvl, rnd) ==
    Concat([k \in 1..Min(4, Len(keywords)) |->
               KeywordFor(keywords[k], key_sentences, lvl, rnd)])

theme_question(core, theme, key_sentences, lvl, rnd) ==
    IF core = "" \/ Len(key_sentences) < 3 THEN <<>>
    ELSE LET apart(snt) == Prefix(snt, 50) # Prefix(core, 50)
             distractors == Prefix(SelectSeq(key_sentences, apart), 3)
         IN  IF Len(distractors) < 2 THEN <<>>
             ELSE << [ type |-> "mcq",
                       question |-> "What is the MAIN IDEA of this text about "
                                    \o theme \o "?",
                       options |-> Shuffle(rnd, <<core>> \o Prefix(distractors, 3)),
                       answer |-> core,
                       explanation |-> "The main idea covers the overall message of "
                                       \o "the complete document.",
                       difficulty |-> lvl,
                       topic |-> "main idea / theme",
                       quality_score |-> 5 ] >>

\* ------------------------------------------------------------------------
\* nlp_engine.OCRTextRepair: helpers for re.sub, str.split and str.join
\* ------------------------------------------------------------------------
\* \s, for the whitespace the texts contain
WHITE == { " ", "\n", "\t" }

\* \w
WordChars == UpperChars \cup LowerChars \cup DigitChars \cup { "_" }

\* the character at position i, '' outside the string
CharAt(s, i) == IF i >= 1 /\ i <= Len(s) THEN SubSeq(s, i, i) ELSE ""

\* last index of the maximal run of characters of the class that starts at i;
\* i - 1 when the character at i is not in the class
RunEnd(s, i, class) ==
    CHOOSE j \in (i - 1)..Len(s) :
        /\ j = Len(s) \/ At(s, j + 1) \notin class
        /\ \A k \in i..j : At(s, k) \in class

\* \b at the gap before position i (1..Len(s)+1)
IsBoundary(s, i) ==
    (i > 1 /\ At(s, i - 1) \in WordChars) # (i <= Len(s) /\ At(s, i) \in WordChars)

RECURSIVE JoinRange(_, _, _, _)
\* sep.join(parts[lo..hi]), by halves
JoinRange(parts, sep, lo, hi) ==
    IF lo > hi THEN ""
    ELSE IF lo = hi THEN parts[lo]
    ELSE LET mid == (lo + hi) \div 2
         IN  JoinRange(parts, sep, lo, mid) \o sep \o JoinRange(parts, sep, mid + 1, hi)

\* sep.join(parts)
JoinAll(parts, sep) == JoinRange(parts, sep, 1, Len(parts))

RECURSIVE Scanned(_, _, _, _, _, _)
\* One left-to-right scan of re.sub over the candidate starts cs[lo..hi]:
\* found[i] = <<end, replacement>> is the match of the pattern that starts at i,
\* `free` the first position no earlier match has consumed.  The result is
\* <<the text built from s[free..], the first position not consumed>>.
Scanned(s, found, cs, free, lo, hi) ==
    IF lo > hi THEN <<"", free>>
    ELSE IF lo = hi
    THEN IF cs[lo] < free THEN <<"", free>>
         ELSE << SubSeq(s, free, cs[lo] - 1) \o found[cs[lo]][2], found[cs[lo]][1] + 1 >>
    ELSE LET Then(left) ==
                 LET After(right) == << left[1] \o right[1], right[2] >>
                 IN  After(Scanned(s, found, cs, left[2], ((lo + hi) \div 2) + 1, hi))
         IN  Then(Scanned(s, found, cs, free, lo, (lo + hi) \div 2))

\* re.sub(pattern, replacement, s): the leftmost non-overlapping matches replaced
Substituted(s, found) ==
    LET Rest(done) == done[1] \o SubSeq(s, done[2], Len(s))
        Over(cs) == Rest(Scanned(s, found, cs, 1, 1, Len(cs)))
    IN  IF Len(s) = 0 THEN s ELSE Over(SortedSeq(DOMAIN found))

\* s.split(sep) for a one-character sep
SplitOn(s, sep) ==
    LET Pieces(cuts) ==
            AsList([k \in 1..(Len(cuts) + 1) |->
                       SubSeq(s, (IF k = 1 THEN 0 ELSE cuts[k - 1]) + 1,
                                 (IF k > Len(cuts) THEN Len(s) + 1 ELSE cuts[k]) - 1)])
    IN  IF Len(s) = 0 THEN << s >>
        ELSE Pieces(SortedSeq({ i \in 1..Len(s) : At(s, i) = sep }))

\* re.sub(r'\n{3,}', '\n\n', s)
CollapseNewlines(s) ==
    Substituted(s, [ i \in { p \in 1..Len(s) :
                               /\ At(s, p) = "\n"
                               /\ p = 1 \/ At(s, p - 1) # "\n"
                               /\ RunEnd(s, p, {"\n"}) >= p + 2 }
                     |-> << RunEnd(s, i, {"\n"}), "\n\n" >> ])

\* ------------------------------------------------------------------------
\* OCRTextRepair._pass7_fix_punctuation and _pass8_quality_filter
\* ------------------------------------------------------------------------
\* line[0].upper() + line[1:] for a line that starts in lower case and has
\* more than 3 characters
Recapitalize(line) ==
    IF Len(line) > 3 /\ IsLowerChar(At(line, 1)) THEN CapFirst(line) ELSE line

pass7_fix_punctuation(txt) ==
    LET Fixed(lines) ==
            JoinAll(AsList([k \in 1..Len(lines) |-> Recapitalize(Strip(lines[k]))]), "\n")
    IN  Fixed(SplitOn(txt, "\n"))

MinLineWords == 3

\* sum(1 for c in line if c.isalpha())
AlphaCount(line) == Cardinality({ i \in 1..Len(line) : IsAlphaChar(At(line, i)) })

\* sum(1 for w in words if len(re.sub(r'[^a-zA-Z]', '', w)) <= 1)
SingleCount(words) == Cardinality({ k \in 1..Len(words) : AlphaCount(words[k]) <= 1 })

\* the three tests a non-empty stripped line passes to be kept: at least 3
\* words, alpha_chars / len(line) >= 0.4, single_chars <= len(words) * 0.4
KeepsLine(line) ==
    LET Passes(words) ==
            /\ Len(words) >= MinLineWords
            /\ ~(5 * AlphaCount(line) < 2 * Len(line))
            /\ ~(5 * SingleCount(words) > 2 * Len(words))
    IN  Passes(Words(line))

\* the filter without its tests: every stripped line kept
pass8_quality_filter_keep_all(txt) ==
    LET Stripped(lines) == AsList([k \in 1..Len(lines) |-> Strip(lines[k])])
    IN  Strip(CollapseNewlines(JoinAll(Stripped(SplitOn(txt, "\n")), "\n")))

pass8_quality_filter(txt) ==
    LET kept(line) == line = "" \/ KeepsLine(line)
        Filtered(lines) ==
            SelectSeq(AsList([k \in 1..Len(lines) |-> Strip(lines[k])]), kept)
    IN  Strip(CollapseNewlines(JoinAll(Filtered(SplitOn(txt, "\n")), "\n")))

\* ------------------------------------------------------------------------
\* OCRTextRepair passes 1, 3, 4 and 5
\* ------------------------------------------------------------------------
\* text.replace('|', 'I'); the other entries of `replacements` name characters
\* outside ASCII or NUL, which the texts do not contain
pass1_fix_encoding(txt) ==
    Substituted(txt, [ i \in { p \in 1..Len(txt) : CharAt(txt, p) = "|" } |-> << i, "I" >> ])

\* a run of whitespace s[lo..hi] that holds a newline: \s*\n\s*
BreaksLine(s, lo, hi) == \E k \in lo..hi : CharAt(s, k) = "\n"

\* re.sub(r'(\w)-\s*\n\s*(\w)', r'\1\2', s)
JoinHyphenated(s) ==
    Substituted(s, [ i \in { p \in 1..(Len(s) - 3) :
                               /\ CharAt(s, p) \in WordChars
                               /\ CharAt(s, p + 1) = "-"
                               /\ BreaksLine(s, p + 2, RunEnd(s, p + 2, WHITE))
                               /\ CharAt(s, RunEnd(s, p + 2, WHITE) + 1) \in WordChars }
                     |-> << RunEnd(s, i + 2, WHITE) + 1,
                            CharAt(s, i) \o CharAt(s, RunEnd(s, i + 2, WHITE) + 1) >> ])

\* re.sub(r'([a-z,;])\s*\n\s*([a-z])', r'\1 \2', s)
JoinBrokenLines(s) ==
    Substituted(s, [ i \in { p \in 1..(Len(s) - 2) :
                               /\ CharAt(s, p) \in LowerChars \cup { ",", ";" }
                               /\ BreaksLine(s, p + 1, RunEnd(s, p + 1, WHITE))
                               /\ CharAt(s, RunEnd(s, p + 1, WHITE) + 1) \in LowerChars }
                     |-> << RunEnd(s, i + 1, WHITE) + 1,
                            CharAt(s, i) \o " " \o CharAt(s, RunEnd(s, i + 1, WHITE) + 1) >> ])

pass3_fix_line_breaks(txt) == CollapseNewlines(JoinBrokenLines(JoinHyphenated(txt)))

\* re.sub(r'(?<=[a-z])rn(?=[a-z])', 'm', s)
FixInnerRn(s) ==
    Substituted(s, [ i \in { p \in 2..(Len(s) - 2) :
                               /\ SubSeq(s, p, p + 1) = "rn"
                               /\ CharAt(s, p - 1) \in LowerChars
                               /\ CharAt(s, p + 2) \in LowerChars }
                     |-> << i + 1, "m" >> ])

\* re.sub(r'\brn\b', 'm', s)
FixLoneRn(s) ==
    Substituted(s, [ i \in { p \in 1..(Len(s) - 1) :
                               /\ SubSeq(s, p, p + 1) = "rn"
                               /\ IsBoundary(s, p)
                               /\ IsBoundary(s, p + 2) }
                     |-> << i + 1, "m" >> ])

\* re.sub(r'\b0(?=[a-zA-Z])', 'O', s)
FixLeadingZero(s) ==
    Substituted(s, [ i \in { p \in 1..(Len(s) - 1) :
                               /\ CharAt(s, p) = "0"
                               /\ IsBoundary(s, p)
                               /\ IsAlphaChar(CharAt(s, p + 1)) }
                     |-> << i, "O" >> ])

\* for pattern, replacement in self.OCR_CHAR_FIXES: text = re.sub(...)
pass4_fix_char_errors(txt) == FixLeadingZero(FixLoneRn(FixInnerRn(txt)))

\* re.sub(r'[ \t]+', ' ', s)
SqueezeBlanks(s) ==
    Substituted(s, [ i \in { p \in 1..Len(s) :
                               /\ CharAt(s, p) \in { " ", "\t" }
                               /\ p = 1 \/ CharAt(s, p - 1) \notin { " ", "\t" } }
                     |-> << RunEnd(s, i, { " ", "\t" }), " " >> ])

\* re.sub(r'\s+([.,;:!?])', r'\1', s)
CloseUpPunctuation(s) ==
    Substituted(s, [ i \in { p \in 1..(Len(s) - 1) :
                               /\ CharAt(s, p) \in WHITE
                               /\ p = 1 \/ CharAt(s, p - 1) \notin WHITE
                               /\ CharAt(s, RunEnd(s, p, WHITE) + 1) \in { ".", ",", ";", ":", "!", "?" } }
                     |-> << RunEnd(s, i, WHITE) + 1, CharAt(s, RunEnd(s, i, WHITE) + 1) >> ])

\* re.sub(r'([.!?])([A-Z])', r'\1 \2', s)
SpaceAfterStop(s) ==
    Substituted(s, [ i \in { p \in 1..(Len(s) - 1) :
                               /\ IsEndPunct(CharAt(s, p))
                               /\ IsUpperChar(CharAt(s, p + 1)) }
                     |-> << i + 1, CharAt(s, i) \o " " \o CharAt(s, i + 1) >> ])

pass5_fix_spacing(txt) == SpaceAfterStop(CloseUpPunctuation(SqueezeBlanks(txt)))

\* ------------------------------------------------------------------------
\* OCRTextRepair._pass6_reconstruct_sentences
\* ------------------------------------------------------------------------
\* re.split for a pattern whose matches start at `starts` (in order) and end
\* at ends[start]: the pieces between the matches
SplitBetween(s, starts, ends) ==
    IF Len(s) = 0 THEN << s >> ELSE
    AsList([k \in 1..(Len(starts) + 1) |->
               SubSeq(s, (IF k = 1 THEN 0 ELSE ends[starts[k - 1]]) + 1,
                         (IF k > Len(starts) THEN Len(s) + 1 ELSE starts[k]) - 1)])

\* re.split(r'\n\n+', text)
SplitParagraphs(txt) ==
    SplitBetween(txt,
                 SortedSeq({ p \in 1..Len(txt) :
                               /\ CharAt(txt, p) = "\n"
                               /\ CharAt(txt, p - 1) # "\n"
                               /\ CharAt(txt, p + 1) = "\n" }),
                 [ i \in 1..Len(txt) |-> RunEnd(txt, i, {"\n"}) ])

\* re.split(r'(?<=[.!?])\s+', para)
SplitAfterStops(para) ==
    SplitBetween(para,
                 SortedSeq({ p \in 2..Len(para) :
                               /\ CharAt(para, p) \in WHITE
                               /\ IsEndPunct(CharAt(para, p - 1)) }),
                 [ i \in 1..Len(para) |-> RunEnd(para, i, WHITE) ])

VERBS ==
    { "is", "was", "are", "were", "had", "has", "have", "said", "told", "found",
      "went", "came", "took", "gave", "knew", "felt", "seemed", "became" }

\* re.search(r'\b(is|was|...|became)\b', buffer, re.IGNORECASE)
HasVerb(buffer) ==
    LET In(low) ==
            \E v \in VERBS : \E p \in 1..Len(low) :
                /\ MatchAt(v, low, p) # 0
                /\ IsBoundary(low, p)
                /\ IsBoundary(low, p + Len(v))
    IN  In(Lower(buffer))

\* buffer.rstrip('.')
RStripDots(s) ==
    SubSeq(s, 1, CHOOSE j \in 0..Len(s) :
                     /\ j = 0 \/ CharAt(s, j) # "."
                     /\ \A k \in (j + 1)..Len(s) : CharAt(s, k) = ".")

MinBufferWords == 5

RECURSIVE MergedFrom(_, _, _, _)
\* the loop `for part in parts` from parts[k] on, and the final append:
\* a buffer of fewer than 5 words without a verb swallows the next part
MergedFrom(parts, k, merged, buffer) ==
    IF k > Len(parts)
    THEN IF buffer # "" THEN Append(merged, buffer) ELSE merged
    ELSE LET Step(part) ==
                 IF part = "" THEN MergedFrom(parts, k + 1, merged, buffer)
                 ELSE IF buffer = "" THEN MergedFrom(parts, k + 1, merged, part)
                 ELSE IF WordCount(buffer) < MinBufferWords /\ ~HasVerb(buffer)
                 THEN MergedFrom(parts, k + 1, merged, RStripDots(buffer) \o " " \o part)
                 ELSE MergedFrom(parts, k + 1, Append(merged, buffer), part)
         IN  Step(Strip(parts[k]))

\* ' '.join(merged) for one stripped, non-empty paragraph
Reconstructed(para) == JoinAll(MergedFrom(SplitAfterStops(para), 1, <<>>, ""), " ")

pass6_reconstruct_sentences(txt) ==
    LET nonempty(para) == para # ""
        Rebuilt(paras) ==
            JoinAll(AsList([k \in 1..Len(paras) |-> Reconstructed(paras[k])]), "\n\n")
        Stripped(paras) ==
            Rebuilt(SelectSeq(AsList([k \in 1..Len(paras) |-> Strip(paras[k])]), nonempty))
    IN  Stripped(SplitParagraphs(txt))

\* ------------------------------------------------------------------------
\* OCRTextRepair._pass2_remove_artifacts
\* Each ...End(s, p) is the last position of the pattern's match that starts at
\* p, or 0 when the pattern does not match there.
\* ------------------------------------------------------------------------
\* first position of the run of n digits that follows whitespace from p on,
\* or 0: \s+\d (when some is TRUE) or \s*\d
DigitsAfterBlank(s, p, some) ==
    LET At1(d) == IF (some /\ d = p) \/ CharAt(s, d) \notin DigitChars THEN 0 ELSE d
    IN  At1(RunEnd(s, p, WHITE) + 1)

\* r'---\s*Page \d+\s*---'
PageRuleEnd(s, p) ==
    LET Closing(w) == IF MatchAt("---", s, w + 1) = 0 THEN 0 ELSE w + 3
        Number(d) ==
            IF CharAt(s, d) \notin DigitChars THEN 0
            ELSE Closing(RunEnd(s, RunEnd(s, d, DigitChars) + 1, WHITE))
        Title(q) == IF MatchAt("Page ", s, q) = 0 THEN 0 ELSE Number(q + 5)
    IN  IF MatchAt("---", s, p) = 0 THEN 0 ELSE Title(RunEnd(s, p + 3, WHITE) + 1)

\* r'\bPage\s+\d+\s+of\s+\d+\b', re.IGNORECASE; low is s.lower()
PageOfEnd(s, low, p) ==
    LET Last(e) == IF IsBoundary(s, e + 1) THEN e ELSE 0
        Total(d) == IF d = 0 THEN 0 ELSE Last(RunEnd(s, d, DigitChars))
        Of(q) ==
            IF q = p + 4 \/ MatchAt("of", low, q) = 0 THEN 0
            ELSE Total(DigitsAfterBlank(s, q + 2, TRUE))
        First(d) ==
            IF d = 0 THEN 0
            ELSE LET Blank(e) == IF RunEnd(s, e + 1, WHITE) = e THEN 0
                                 ELSE Of(RunEnd(s, e + 1, WHITE) + 1)
                 IN  Blank(RunEnd(s, d, DigitChars))
    IN  IF ~IsBoundary(s, p) \/ MatchAt("page", low, p) = 0 THEN 0
        ELSE First(DigitsAfterBlank(s, p + 4, TRUE))

\* s[lo..hi] are digits
AllDigits(s, lo, hi) == \A k \in lo..hi : CharAt(s, k) \in DigitChars

\* r'Reprint\s+\d{4}[-]\d{2}'
ReprintEnd(s, p) ==
    LET Year(d) ==
            IF d = 0 \/ ~AllDigits(s, d, d + 3) \/ CharAt(s, d + 4) # "-"
               \/ ~AllDigits(s, d + 5, d + 6)
            THEN 0 ELSE d + 6
    IN  IF MatchAt("Reprint", s, p) = 0 THEN 0
        ELSE Year(DigitsAfterBlank(s, p + 7, TRUE))

\* last position of the line of s that position i lies on (i - 1 at a newline)
LineEnd(s, i) ==
    CHOOSE j \in (i - 1)..Len(s) :
        /\ j = Len(s) \/ CharAt(s, j + 1) = "\n"
        /\ \A k \in i..j : CharAt(s, k) # "\n"

\* r'Chap\s*\d+\.indd.*'
ChapEnd(s, p) ==
    LET Suffixed(e) == IF MatchAt(".indd", s, e + 1) = 0 THEN 0 ELSE LineEnd(s, e + 6)
        Number(d) == IF d = 0 THEN 0 ELSE Suffixed(RunEnd(s, d, DigitChars))
    IN  IF MatchAt("Chap", s, p) = 0 THEN 0
        ELSE Number(DigitsAfterBlank(s, p + 4, FALSE))

\* the position after \d{1,2} followed by the character c, from position p; or 0
OneOrTwoDigitsThen(s, p, c) ==
    LET Run(e) == IF e >= p /\ e <= p + 1 /\ CharAt(s, e + 1) = c THEN e + 2 ELSE 0
    IN  Run(RunEnd(s, p, DigitChars))

\* r'\d{1,2}/\d{1,2}/\d{4}\s+\d{1,2}:\d{2}:\d{2}\s*[AP]M'
TimestampEnd(s, p) ==
    LET Meridiem(q) ==
            IF CharAt(s, q) \in { "A", "P" } /\ CharAt(s, q + 1) = "M" THEN q + 1 ELSE 0
        Seconds(m) ==
            IF m = 0 \/ ~AllDigits(s, m, m + 1) \/ CharAt(s, m + 2) # ":"
               \/ ~AllDigits(s, m + 3, m + 4)
            THEN 0 ELSE Meridiem(RunEnd(s, m + 5, WHITE) + 1)
        Hour(h) == IF h = 0 THEN 0 ELSE Seconds(OneOrTwoDigitsThen(s, h, ":"))
        Year(y) ==
            IF y = 0 \/ ~AllDigits(s, y, y + 3) THEN 0
            ELSE Hour(DigitsAfterBlank(s, y + 4, TRUE))
        Month(m) == IF m = 0 THEN 0 ELSE Year(OneOrTwoDigitsThen(s, m, "/"))
    IN  Month(OneOrTwoDigitsThen(s, p, "/"))

\* r'\bISBN[:\s]\S+', re.IGNORECASE; low is s.lower()
IsbnEnd(s, low, p) ==
    IF /\ IsBoundary(s, p)
       /\ MatchAt("isbn", low, p) # 0
       /\ CharAt(s, p + 4) \in WHITE \cup { ":" }
       /\ p + 5 <= Len(s)
       /\ CharAt(s, p + 5) \notin WHITE
    THEN SolidRunEnd(s, p + 5) ELSE 0

\* [\d\s\-\.\,\>\<\|\/\\:;$#@*], the ASCII characters of the class
NOISE_CHARS ==
    DigitChars \cup WHITE \cup
    { "-", ".", ",", ">", "<", "|", "/", "\\", ":", ";", "$", "#", "@", "*" }

\* r'^[\d\s\-...]+$' with re.MULTILINE: from a line start, the longest run of
\* noise characters that ends at a line end
NoiseLineEnd(s, p) ==
    LET Ending(r) ==
            LET ends == { e \in p..r : e = Len(s) \/ CharAt(s, e + 1) = "\n" }
            IN  IF ends = {} THEN 0 ELSE CHOOSE e \in ends : \A f \in ends : f <= e
    IN  IF (p = 1 \/ CharAt(s, p - 1) = "\n") /\ CharAt(s, p) \in NOISE_CHARS
        THEN Ending(RunEnd(s, p, NOISE_CHARS)) ELSE 0

COMMON_SHORT ==
    { "AS", "IS", "IT", "IN", "ON", "AT", "TO", "BY", "AN", "OR", "OF",
      "DO", "GO", "HE", "ME", "MY", "NO", "SO", "UP", "US", "WE", "BE" }

\* r'\b[A-Z]{2,3}\b(?!\s*:)'
CapsTokenEnd(s, p) ==
    LET Token(e) ==
            IF /\ e - p + 1 \in { 2, 3 }
               /\ IsBoundary(s, e + 1)
               /\ CharAt(s, RunEnd(s, e + 1, WHITE) + 1) # ":"
            THEN e ELSE 0
    IN  IF IsBoundary(s, p) /\ CharAt(s, p) \in UpperChars
        THEN Token(RunEnd(s, p, UpperChars)) ELSE 0

\* remove_noise_caps
NoiseCapsReplacement(token) == IF token \in COMMON_SHORT THEN token ELSE " "

RemovePageRules(s) ==
    Substituted(s, [ i \in { p \in 1..Len(s) : PageRuleEnd(s, p) # 0 }
                     |-> << PageRuleEnd(s, i), " " >> ])

RemovePageOf(s) ==
    LET In(low) ==
            Substituted(s, [ i \in { p \in 1..Len(s) : PageOfEnd(s, low, p) # 0 }
                             |-> << PageOfEnd(s, low, i), "" >> ])
    IN  In(Lower(s))

RemoveReprint(s) ==
    Substituted(s, [ i \in { p \in 1..Len(s) : ReprintEnd(s, p) # 0 }
                     |-> << ReprintEnd(s, i), "" >> ])

RemoveChap(s) ==
    Substituted(s, [ i \in { p \in 1..Len(s) : ChapEnd(s, p) # 0 }
                     |-> << ChapEnd(s, i), "" >> ])

RemoveTimestamps(s) ==
    Substituted(s, [ i \in { p \in 1..Len(s) : TimestampEnd(s, p) # 0 }
                     |-> << TimestampEnd(s, i), "" >> ])

RemoveIsbn(s) ==
    LET In(low) ==
            Substituted(s, [ i \in { p \in 1..Len(s) : IsbnEnd(s, low, p) # 0 }
                             |-> << IsbnEnd(s, low, i), "" >> ])
    IN  In(Lower(s))

RemoveNoiseLines(s) ==
    Substituted(s, [ i \in { p \in 1..Len(s) : NoiseLineEnd(s, p) # 0 }
                     |-> << NoiseLineEnd(s, i), "" >> ])

RemoveNoiseCaps(s) ==
    Substituted(s, [ i \in { p \in 1..Len(s) : CapsTokenEnd(s, p) # 0 }
                     |-> << CapsTokenEnd(s, i),
                            NoiseCapsReplacement(SubSeq(s, i, CapsTokenEnd(s, i))) >> ])

\* The two substitutions that remove characters outside ASCII (currency and
\* typographic signs, words holding a non-ASCII character) leave the ASCII
\* texts of the model as they are.
pass2_remove_artifacts(txt) ==
    RemoveNoiseCaps(RemoveNoiseLines(RemoveIsbn(RemoveTimestamps(
        RemoveChap(RemoveReprint(RemovePageOf(RemovePageRules(txt))))))))

\* ------------------------------------------------------------------------
\* OCRTextRepair.repair
\* ------------------------------------------------------------------------
repair(txt) ==
    Strip(pass8_quality_filter(pass7_fix_punctuation(pass6_reconstruct_sentences(
        pass5_fix_spacing(pass4_fix_char_errors(pass3_fix_line_breaks(
            pass2_remove_artifacts(pass1_fix_encoding(txt)))))))))

\* --- inputs ------------------------------------------------------------
\* lines of a scanned page: prose, page furniture and OCR debris
RAW_LINES ==
    << "the farmer went to the market.", "12 - 3", "AB x",
       "Tom met Ann.", "x1 y2 z3 9", "corn-" >>

\* what stands between two lines: a line break, or a blank line
LINE_GAPS == { "\n", "\n\n" }

MaxRawLines == 3

\* the pages of at most MaxRawLines lines
RawTexts ==
    UNION { { JoinAll(AsList([k \in 1..n |->
                                 (IF k = 1 THEN "" ELSE gap[k]) \o RAW_LINES[pick[k]]]), "") :
                pick \in [1..n -> 1..Len(RAW_LINES)], gap \in [1..n -> LINE_GAPS] } :
            n \in 0..MaxRawLines }

\* a caller enters repair(text)
R_Call ==
    /\ pc = "idle"
    /\ text' \in RawTexts
    /\ repaired' = text'
    /\ caller' = "repair"
    /\ pc' = "r_pass1"
    /\ UNCHANGED <<ratio, max_sentences, min_sentences, sentences, rank_scores,
                   top_indices, summary>>
    /\ UNCHANGED <<eVars, pVars, qVars, gVars, mVars, iVars, wVars, uVars>>

\* text = self._pass1_fix_encoding(text)
R_Pass1 ==
    /\ pc = "r_pass1"
    /\ repaired' = pass1_fix_encoding(repaired)
    /\ pc' = "r_pass2"
    /\ UNCHANGED notR

\* the second pass handing over to the fourth: line-break repair left out
R_Pass2_then_4 ==
    /\ pc = "r_pass2"
    /\ repaired' = pass2_remove_artifacts(repaired)
    /\ pc' = "r_pass4"
    /\ UNCHANGED notR

\* text = self._pass2_remove_artifacts(text)
R_Pass2 ==
    /\ pc = "r_pass2"
    /\ repaired' = pass2_remove_artifacts(repaired)
    /\ pc' = "r_pass3"
    /\ UNCHANGED notR

\* text = self._pass3_fix_line_breaks(text)
R_Pass3 ==
    /\ pc = "r_pass3"
    /\ repaired' = pass3_fix_line_breaks(repaired)
    /\ pc' = "r_pass4"
    /\ UNCHANGED notR

\* text = self._pass4_fix_char_errors(text)
R_Pass4 ==
    /\ pc = "r_pass4"
    /\ repaired' = pass4_fix_char_errors(repaired)
    /\ pc' = "r_pass5"
    /\ UNCHANGED notR

\* text = self._pass5_fix_spacing(text)
R_Pass5 ==
    /\ pc = "r_pass5"
    /\ repaired' = pass5_fix_spacing(repaired)
    /\ pc' = "r_pass6"
    /\ UNCHANGED notR

\* text = self._pass6_reconstruct_sentences(text)
R_Pass6 ==
    /\ pc = "r_pass6"
    /\ repaired' = pass6_reconstruct_sentences(repaired)
    /\ pc' = "r_pass7"
    /\ UNCHANGED notR

\* text = self._pass7_fix_punctuation(text)
R_Pass7 ==
    /\ pc = "r_pass7"
    /\ repaired' = pass7_fix_punctuation(repaired)
    /\ pc' = "r_pass8"
    /\ UNCHANGED notR

\* text = self._pass8_quality_filter(text)
R_Pass8 ==
    /\ pc = "r_pass8"
    /\ repaired' = pass8_quality_filter(repaired)
    /\ pc' = "r_return"
    /\ UNCHANGED notR

\* return text.strip(), to a direct caller of repair
R_Return ==
    /\ pc = "r_return"
    /\ caller = "repair"
    /\ repaired' = Strip(repaired)
    /\ pc' = "r_done"
    /\ UNCHANGED notR

\* the eight passes, in the order repair applies them
RepairPasses ==
    \/ R_Pass1 \/ R_Pass2 \/ R_Pass3 \/ R_Pass4
    \/ R_Pass5 \/ R_Pass6 \/ R_Pass7 \/ R_Pass8

NextR == R_Call \/ RepairPasses \/ R_Return

SpecR == Init /\ [][NextR]_vars

\* ------------------------------------------------------------------------
\* nlp_engine.SmartQuizGenerator.generate
\* ------------------------------------------------------------------------
MinKeyLen == 10

\* key = q.get('question', '')[:60].lower()
QuestionKey(qn) == Lower(Prefix(qn.question, KeyLen))

\* the dedup loop: the first question of every key longer than 10 characters
DedupQuestions(qs) ==
    LET keys == AsList([k \in 1..Len(qs) |-> QuestionKey(qs[k])])
        fresh(k) == Len(keys[k]) > MinKeyLen /\ \A j \in 1..(k - 1) : keys[j] # keys[k]
        kept == SelectSeq([k \in 1..Len(qs) |-> k], fresh)
    IN  AsList([k \in 1..Len(kept) |-> qs[kept[k]]])

\* the candidates left in the order of their generation
SortByQuality_unsorted(qs) == qs

\* unique.sort(key=lambda q: q.get('quality_score', 0), reverse=True)
SortByQuality(qs) ==
    LET order == DescendingOrder(AsList([k \in 1..Len(qs) |-> qs[k].quality_score]))
    IN  AsList([k \in 1..Len(qs) |-> qs[order[k]]])

\* q['id'] = i + 1; q.pop('quality_score', None)
Numbered(qn, id) ==
    [f \in (DOMAIN qn \cup {"id"}) \ {"quality_score"} |-> IF f = "id" THEN id ELSE qn[f]]

QUIZ_SEGMENTS ==
    << "Maria walked to the old market because her father needed fresh bread today.",
       "The honest farmer gave the young girl three ripe apples before the sunset.",
       "Everyone in the small village trusted the farmer and his large family completely.",
       "Heavy rain fell during the night and therefore the river flooded the lower fields.",
       "Pedro carried the wooden basket across the bridge to the crowded market square.",
       "The children found 12 bright coins under the stone near the village well.",
       "A short one here now okay.",
       "The market's owner refused to sell the bread, which led to a long angry argument.",
       "Nobody in the village knew why the old stone bridge had fallen that winter.",
       "Farmers bring grain to the market every week so that families can eat well." >>

MaxQuizSegs == 9
QuizOffsets == { 1, 4, 8 }

\* a cleaned document: n consecutive segments of the cycle, starting at off;
\* clean_text returns each of these unchanged
QuizDocument(off, n) ==
    Join([k \in 1..n |-> QUIZ_SEGMENTS[((off + k - 2) % Len(QUIZ_SEGMENTS)) + 1]], " ")

QuizTexts == { QuizDocument(off, n) : off \in QuizOffsets, n \in 0..MaxQuizSegs }

\* short pages: sentences too short for the sentence filter, with and without
\* a verb, and one sentence whose keywords are all short
QUIZ_PAGES ==
    { "Tom met Ann. She ran home. They ate.", "Tom Ray was here.",
      "Tom Ray and Ann Lee went back home just this week." }

QuizRawTexts == QuizTexts \cup QUIZ_PAGES

\* <<level, n_questions, rng>>
QuizRequests ==
    { <<"beginner", 0, "keep">>, <<"intermediate", 8, "reverse">>,
      <<"advanced", 3, "rotate">> }

\* a caller enters generate(text, level, n_questions), which calls
\* self.nlp.clean_text(text), that is repair(text)
Q_Call ==
    /\ pc = "idle"
    /\ text' \in QuizRawTexts
    /\ \E req \in QuizRequests :
          level' = req[1] /\ n_questions' = req[2] /\ rng' = req[3]
    /\ repaired' = text'
    /\ caller' = "generate"
    /\ pc' = "r_pass1"
    /\ UNCHANGED <<clean, structured, all_sentences, questions, unique, selected>>
    /\ UNCHANGED <<ratio, max_sentences, min_sentences, sentences, rank_scores,
                   top_indices, summary>>
    /\ UNCHANGED <<eVars, pVars, gVars, mVars, iVars, wVars, uVars>>

\* clean = self.nlp.clean_text(text): repair returns text.strip() to generate
Q_Clean ==
    /\ pc = "r_return"
    /\ caller = "generate"
    /\ clean' = Strip(repaired)
    /\ pc' = "q_structure"
    /\ UNCHANGED <<level, n_questions, rng, structured, all_sentences, questions,
                   unique, selected>>
    /\ UNCHANGED notQ

\* structured, key_sentences, all_sentences, keywords, theme, summary
Q_Structure ==
    /\ pc = "q_structure"
    /\ LET sents == extract_sentences(clean) IN
       /\ \E raw \in RankProfiles(Len(sents)) :
             structured' = summarize_with_structure(clean, raw)
       /\ all_sentences' = rewrite_list(sents)
    /\ questions' = <<>>
    /\ pc' = "q_comprehension"
    /\ UNCHANGED <<clean, level, n_questions, rng, unique, selected>>
    /\ UNCHANGED notQ

\* questions.extend(<sub-generator>), one step per sub-generator
Q_Extend(at, made, next) ==
    /\ pc = at
    /\ questions' = questions \o made
    /\ pc' = next
    /\ UNCHANGED <<clean, level, n_questions, rng, structured, all_sentences,
                   unique, selected>>
    /\ UNCHANGED notQ

Q_Comprehension ==
    Q_Extend("q_comprehension",
             comprehension_mcq(structured.key_facts, all_sentences,
                               structured.main_theme, level, rng),
             "q_fill_blank")

Q_FillBlank ==
    Q_Extend("q_fill_blank", smart_fill_blank(structured.key_facts, level), "q_true_false")

Q_TrueFalse ==
    Q_Extend("q_true_false", semantic_true_false(structured.key_facts, level, rng),
             "q_causal")

Q_Causal ==
    Q_Extend("q_causal", causal_questions(all_sentences, level, rng), "q_keyword")

Q_Keyword ==
    Q_Extend("q_keyword",
             keyword_context_questions(structured.key_facts, structured.keywords,
                                       level, rng),
             "q_theme")

Q_Theme ==
    Q_Extend("q_theme",
             theme_question(structured.core_summary, structured.main_theme,
                            structured.key_facts, level, rng),
             "q_dedup")

\* the dedup loop
Q_Dedup ==
    /\ pc = "q_dedup"
    /\ unique' = DedupQuestions(questions)
    /\ pc' = "q_select"
    /\ UNCHANGED <<clean, level, n_questions, rng, structured, all_sentences,
                   questions, selected>>
    /\ UNCHANGED notQ

\* sort, selected = unique[:n_questions], shuffle, ids; return selected
Q_Select ==
    /\ pc = "q_select"
    /\ LET sorted == SortByQuality(unique)
           shuffled == Shuffle(rng, Prefix(sorted, n_questions))
       IN  /\ unique' = sorted
           /\ selected' = AsList([i \in 1..Len(shuffled) |-> Numbered(shuffled[i], i)])
    /\ pc' = "q_done"
    /\ UNCHANGED <<clean, level, n_questions, rng, structured, all_sentences, questions>>
    /\ UNCHANGED notQ

NextQ ==
    \/ Q_Call \/ RepairPasses \/ Q_Clean \/ Q_Structure \/ Q_Comprehension \/ Q_FillBlank \/ Q_TrueFalse
    \/ Q_Causal \/ Q_Keyword \/ Q_Theme \/ Q_Dedup \/ Q_Select

SpecQ == Init /\ [][NextQ]_vars

\* ------------------------------------------------------------------------
\* learning_engine.QuizGenerator: the rule-based generators
\* ------------------------------------------------------------------------
RECURSIVE ExtendWhileBelow(_, _, _)
\* for ...: if len(questions) >= limit: break; questions.append(...)
ExtendWhileBelow(parts, limit, acc) ==
    IF Len(parts) = 0 \/ Len(acc) >= limit THEN acc
    ELSE ExtendWhileBelow(Tail(parts), limit, acc \o Head(parts))

\* _ensure_4_options(opts, c) on a list, its two shuffles drawn from rnd
ensure_4_with(rnd, opts, c) ==
    LET Trimmed(o3) ==
            IF Len(o3) > NumOptions
            THEN <<c>> \o Prefix(Shuffle(rnd, Without(o3, c)), 3)
            ELSE o3
    IN  Prefix(Shuffle(rnd, PadToFour(Trimmed(RemoveDuplicates(WithCorrect(opts, c))), 0)),
               NumOptions)

FILL_SKIP_WORDS ==
    { "the", "a", "an", "is", "was", "are", "were", "be", "been", "and", "or", "but",
      "not", "with", "this", "that", "from", "by", "as", "it", "he", "she", "they",
      "we", "i", "his", "her", "their", "our", "you", "said", "had", "have", "has",
      "did", "do", "does", "will", "would", "could", "should", "very", "just", "also",
      "even", "then", "when", "where", "what", "who", "how", "all", "some", "any",
      "no", "more", "much", "many", "few", "each", "every", "both", "other", "another",
      "into", "upon", "about", "after", "before", "through", "during" }

GAP == "_________"

\* str.isdigit()
IsDigits(s) == s # "" /\ \A i \in 1..Len(s) : IsDigitChar(At(s, i))

\* the score of words[i] as a blank, -1 when the word is no candidate
GapScore(words, i) ==
    LET Scored(word, cw) ==
            IF \/ Len(cw) < 3
               \/ Lower(cw) \in FILL_SKIP_WORDS
               \/ EndsWith(word, "'s") \/ EndsWith(word, "s'")
            THEN -1
            ELSE (IF IsUpperChar(At(cw, 1)) /\ i > 1 THEN 3 ELSE 0)
                 + (IF Len(cw) >= 5 THEN 2 ELSE 0)
                 + (IF IsDigits(cw) THEN 2 ELSE 0)
    IN  Scored(words[i], AlnumOnly(words[i]))

\* one pass of the loop `for sent in good[:20]`
GapFor(sent, lvl) ==
    LET Question(words, idx, ans) ==
            [ type |-> "fill_blank",
              question |-> "Fill in the blank:<br><em>\""
                           \o Join(AsList([i \in 1..Len(words) |->
                                              IF i = idx THEN GAP ELSE words[i]]), " ")
                           \o "\"</em>",
              options |-> <<>>,
              answer |-> ans,
              hint |-> ToString(Len(ans)) \o " letters, starts with \""
                       \o UpperChar(At(ans, 1)) \o "\"",
              explanation |-> "From the document: \"" \o sent \o "\"",
              difficulty |-> IF Len(ans) <= 5 THEN "beginner" ELSE lvl,
              topic |-> "document content" ]
        Best(words, score) ==
            LET top == CHOOSE m \in Range(score) : \A i \in 1..Len(score) : score[i] <= m
                idx == CHOOSE i \in 1..Len(words) :
                          score[i] = top /\ \A j \in 1..(i - 1) : score[j] # top
            IN  IF top < 2 THEN <<>> ELSE << Question(words, idx, AlnumOnly(words[idx])) >>
        Scores(words) == Best(words, AsList([i \in 1..Len(words) |-> GapScore(words, i)]))
    IN  Scores(Words(sent))

fill_blank_from_text(snts, lvl, rnd) ==
    LET long(s) == WordCount(s) >= 10
        Passes(good) == AsList([k \in 1..Len(good) |-> GapFor(good[k], lvl)])
    IN  ExtendWhileBelow(Passes(Prefix(Shuffle(rnd, SelectSeq(snts, long)), 20)), 4, <<>>)

MUTATIONS ==
    << <<"not ", "">>, <<"never ", "always ">>, <<"always ", "never ">>,
       <<"before ", "after ">>, <<"after ", "before ">>, <<"could not", "could">>,
       <<"could", "could not">>, <<"refused", "agreed">>, <<"agreed", "refused">>,
       <<"stolen", "bought">>, <<"returned", "kept">>, <<"beautiful", "ugly">>,
       <<"honest", "dishonest">>, <<"happy", "sad">>, <<"trusted", "doubted">> >>

\* the positions at which sub (lower case) occurs in s, case ignored
FoldHits(sub, s) ==
    { p \in 1..(Len(s) - Len(sub) + 1) : Lower(SubSeq(s, p, p + Len(sub) - 1)) = sub }

\* re.sub(re.escape(orig), repl, sent, count=1, flags=re.IGNORECASE)
SwapFirst(orig, repl, sent) ==
    LET At1(hits) ==
            IF hits = {} THEN sent
            ELSE ReplaceAt(sent, CHOOSE p \in hits : \A p2 \in hits : p <= p2, Len(orig), repl)
    IN  At1(FoldHits(orig, sent))

\* the false statement made from sent, or sent when no mutation changes it
Falsified(sent) ==
    LET First(swaps) ==
            IF swaps = {} THEN sent
            ELSE LET k == CHOOSE a \in swaps : \A b \in swaps : a <= b
                 IN  SwapFirst(MUTATIONS[k][1], MUTATIONS[k][2], sent)
    IN  First({ k \in 1..Len(MUTATIONS) :
                  SwapFirst(MUTATIONS[k][1], MUTATIONS[k][2], sent) # sent })

\* one pass of the loop `for sent in good[:8]`
StatementsFor(sent, lvl) ==
    LET Pair(mutated) ==
            << [ type |-> "true_false",
                 question |-> "True or False:<br><em>\"" \o sent \o "\"</em>",
                 options |-> <<"True", "False">>,
                 answer |-> "True",
                 explanation |-> "This statement appears directly in the document.",
                 difficulty |-> "beginner",
                 topic |-> "reading comprehension" ] >>
            \o (IF mutated # sent
                THEN << [ type |-> "true_false",
                          question |-> "True or False:<br><em>\"" \o mutated \o "\"</em>",
                          options |-> <<"True", "False">>,
                          answer |-> "False",
                          explanation |-> "The correct version is: \"" \o sent \o "\"",
                          difficulty |-> lvl,
                          topic |-> "reading comprehension" ] >>
                ELSE <<>>)
    IN  Pair(Falsified(sent))

true_false_from_text(snts, lvl, rnd) ==
    LET fit(s) == 12 <= WordCount(s) /\ WordCount(s) <= 40
        Passes(good) == AsList([k \in 1..Len(good) |-> StatementsFor(good[k], lvl)])
    IN  Prefix(ExtendWhileBelow(Passes(Prefix(Shuffle(rnd, SelectSeq(snts, fit)), 8)),
                                4, <<>>), 6)

WHO_VERBS ==
    { "said", "told", "asked", "replied", "went", "came", "took", "gave", "rode",
      "stolen", "found", "refused", "believed", "knew", "heard", "jumped", "cried",
      "laughed", "felt", "looked", "wanted", "wished" }

\* ws, cut to its first 15 words when it has more
Clipped(ws) ==
    IF WordCount(ws) > 15 THEN Join(Prefix(Words(ws), 15), " ") \o "..." ELSE ws

\* wrong: the first three other sentences that name the person, clipped
WhoWrong(name, sent, snts) ==
    LET other(s) == Contains(s, name) /\ s # sent /\ WordCount(s) >= 6
        Clip(others) == AsList([k \in 1..Len(others) |-> Clipped(others[k])])
    IN  Clip(Prefix(SelectSeq(snts, other), 3))

\* one pass of the loop `for sent in sentences` of _who_what_questions
WhoWhatFor(sent, snts, people_names, lvl, rnd) ==
    LET Question(name) ==
            [ type |-> "mcq",
              question |-> "Which best describes what <strong>" \o name
                           \o "</strong> does?",
              options |-> ensure_4_with(rnd, <<sent>> \o WhoWrong(name, sent, snts), sent),
              answer |-> sent,
              explanation |-> "Stated directly in the document.",
              difficulty |-> lvl,
              topic |-> name \o "'s actions" ]
        First(usable) ==
            IF usable = {} THEN <<>>
            ELSE << Question(people_names[CHOOSE a \in usable : \A b \in usable : a <= b]) >>
    IN  First({ k \in 1..Len(people_names) :
                  /\ Contains(sent, people_names[k]) /\ WordCount(sent) >= 8
                  /\ \E verb \in WHO_VERBS : WordHits(verb, sent) # {}
                  /\ Len(WhoWrong(people_names[k], sent, snts)) >= 2 })

who_what_questions(snts, people_names, lvl, rnd) ==
    IF Len(people_names) = 0 THEN <<>>
    ELSE ExtendWhileBelow(AsList([k \in 1..Len(snts) |->
                                     WhoWhatFor(snts[k], snts, people_names, lvl, rnd)]),
                          3, <<>>)

fact_mcq(snts, lvl, rnd) ==
    LET fit(s) == 10 <= WordCount(s) /\ WordCount(s) <= 35
        Question(fact, wrongs) ==
            [ type |-> "mcq",
              question |-> "Which statement is taken directly from the document?",
              options |-> ensure_4_with(rnd, <<fact>> \o wrongs, fact),
              answer |-> fact,
              explanation |-> "This sentence appears in the original text.",
              difficulty |-> lvl,
              topic |-> "document recall" ]
        Rounds(good) ==
            AsList([k \in 1..((Min(Len(good) - 3, 12) + 3) \div 4) |->
                       << Question(good[4 * k - 3], SubSeq(good, 4 * k - 2, 4 * k)) >>])
        From(good) ==
            IF Len(good) < 4 THEN <<>>
            ELSE ExtendWhileBelow(Rounds(Shuffle(rnd, good)), 3, <<>>)
    IN  From(SelectSeq(snts, fit))

\* TextExpander.TERM_KNOWLEDGE, the fields _acronym_questions reads; an entry
\* without 'full' has full = ""
TERM_KNOWLEDGE ==
    << [ term |-> "OCR", full |-> "Optical Character Recognition", intermediate |->
           "Converts images of text into machine-readable characters using pattern recognition." ],
       [ term |-> "CNN", full |-> "Convolutional Neural Network", intermediate |->
           "Deep learning architecture using filter kernels to extract spatial features." ],
       [ term |-> "NLP", full |-> "Natural Language Processing", intermediate |->
           "Computational analysis and generation of human language." ],
       [ term |-> "LSTM", full |-> "Long Short-Term Memory", intermediate |->
           "Recurrent neural network variant that preserves long-range dependencies." ],
       [ term |-> "CLAHE", full |-> "Contrast Limited Adaptive Histogram Equalization", intermediate |->
           "Local contrast enhancement that handles uneven illumination." ],
       [ term |-> "CER", full |-> "Character Error Rate", intermediate |->
           "Character-level edit distance divided by reference length." ],
       [ term |-> "WER", full |-> "Word Error Rate", intermediate |->
           "Word-level edit distance normalized by reference word count." ],
       [ term |-> "algorithm", full |-> "", intermediate |->
           "A defined sequence of operations for solving a computational problem." ],
       [ term |-> "pipeline", full |-> "", intermediate |->
           "Sequential processing chain where data flows through transformation stages." ],
       [ term |-> "binarization", full |-> "", intermediate |->
           "Thresholding operation converting grayscale to binary values." ],
       [ term |-> "confidence", full |-> "", intermediate |->
           "Probability score the model assigns to its predictions." ],
       [ term |-> "honesty", full |-> "", intermediate |->
           "A moral principle of truthfulness and integrity." ],
       [ term |-> "integrity", full |-> "", intermediate |->
           "Adherence to moral and ethical principles." ] >>

\* one pass of the loop `for term in acronyms[:4]`
AcronymFor(term, rnd) ==
    LET info == TERM_KNOWLEDGE[CHOOSE k \in 1..Len(TERM_KNOWLEDGE) :
                                  TERM_KNOWLEDGE[k].term = term]
        other(e) == e.term # term /\ e.full # "" /\ e.full # info.full
        Question(wrong) ==
            IF Len(wrong) = 0 THEN <<>>
            ELSE << [ type |-> "mcq",
                      question |-> "What does <strong>" \o term \o "</strong> stand for?",
                      options |-> ensure_4_with(rnd, <<info.full>> \o wrong, info.full),
                      answer |-> info.full,
                      explanation |-> info.intermediate,
                      difficulty |-> "beginner",
                      topic |-> term ] >>
        Sample(pool) == AsList([k \in 1..Min(3, Len(pool)) |-> Shuffle(rnd, pool)[k].full])
    IN  IF info.full = "" THEN <<>> ELSE Question(Sample(SelectSeq(TERM_KNOWLEDGE, other)))

\* acronyms: the terms of concepts_data['acronyms']
acronym_questions(acronyms, rnd) ==
    LET known(term) == \E k \in 1..Len(TERM_KNOWLEDGE) : TERM_KNOWLEDGE[k].term = term
        Each(terms) == Concat(AsList([k \in 1..Len(terms) |-> AcronymFor(terms[k], rnd)]))
    IN  Each(Prefix(SelectSeq(acronyms, known), 4))

\* ------------------------------------------------------------------------
\* learning_engine.AIEngine.generate_quiz and QuizGenerator.generate
\* ------------------------------------------------------------------------
QUESTION_TYPES == { "mcq", "fill_blank", "true_false" }

\* q.get(field, default)
Get(q, field, default) == IF field \in DOMAIN q THEN q[field] ELSE default

\* qtype = q.get('type', 'mcq'); anything unknown becomes 'mcq'
TypeOf(q) ==
    IF "type" \in DOMAIN q /\ q.type \in QUESTION_TYPES THEN q.type ELSE "mcq"

\* options = q.get('options', []); a value that is not a list becomes [].
\* A raw value is [is_list |-> ..., items |-> ...]
ListOf(q) ==
    IF "options" \in DOMAIN q /\ q.options.is_list THEN q.options.items ELSE <<>>

\* the entry AIEngine.generate_quiz appends to `valid` for the parsed dict q
Validated(q, lvl, rnd) ==
    [ type |-> TypeOf(q),
      question |-> Get(q, "question", ""),
      options |-> IF TypeOf(q) = "mcq"
                  THEN ensure_4_with(rnd, ListOf(q), Get(q, "answer", ""))
                  ELSE IF TypeOf(q) = "true_false" THEN <<"True", "False">>
                  ELSE ListOf(q),
      answer |-> Get(q, "answer", ""),
      explanation |-> Get(q, "explanation", ""),
      difficulty |-> Get(q, "difficulty", lvl),
      topic |-> Get(q, "topic", "document content") ]

\* AIEngine.generate_quiz, from the parsed reply on
generate_quiz(parsed, lvl, rnd) ==
    AsList([k \in 1..Len(parsed) |-> Validated(parsed[k], lvl, rnd)])

\* QuizGenerator._normalize_question; every q it is given holds a list of options
normalize_question(q, lvl, rnd) ==
    LET answer == Get(q, "answer", "") IN
    [ type |-> TypeOf(q),
      question |-> Get(q, "question", "Question not available"),
      options |-> IF TypeOf(q) = "mcq"
                  THEN ensure_4_with(rnd, Get(q, "options", <<>>), answer)
                  ELSE IF TypeOf(q) = "true_false" THEN <<"True", "False">>
                  ELSE <<>>,
      answer |-> IF TypeOf(q) = "true_false" /\ answer \notin {"True", "False"}
                 THEN "True" ELSE answer,
      explanation |-> Get(q, "explanation", ""),
      difficulty |-> Get(q, "difficulty", lvl),
      topic |-> Get(q, "topic", "document content"),
      hint |-> Get(q, "hint", "") ]

MinGenKeyLen == 8

\* a loop that keeps every candidate with a long enough key
DedupGenerated_all(qs) ==
    LET long(q) == Len(Lower(Prefix(Get(q, "question", ""), KeyLen))) > MinGenKeyLen
    IN  SelectSeq(qs, long)

\* the "Deduplicate" loop of QuizGenerator.generate
DedupGenerated(qs) ==
    LET Kept(keys) ==
            LET fresh(k) == Len(keys[k]) > MinGenKeyLen
                            /\ \A j \in 1..(k - 1) : keys[j] # keys[k]
                Picked(kept) == AsList([k \in 1..Len(kept) |-> qs[kept[k]]])
            IN  Picked(SelectSeq([k \in 1..Len(qs) |-> k], fresh))
    IN  Kept(AsList([k \in 1..Len(qs) |->
                        Lower(Prefix(Get(qs[k], "question", ""), KeyLen))]))

\* ids that start at 0
WithId_from_zero(q, id) == [f \in DOMAIN q \cup {"id"} |-> IF f = "id" THEN id - 1 ELSE q[f]]

\* q['id'] = i + 1
WithId(q, id) == [f \in DOMAIN q \cup {"id"} |-> IF f = "id" THEN id ELSE q[f]]

\* the questions of the rule-based branch, in the order they are gathered
RuleBased(cd, lvl, rnd) ==
    fill_blank_from_text(cd.key_sentences, lvl, rnd)
    \o true_false_from_text(cd.key_sentences, lvl, rnd)
    \o who_what_questions(cd.key_sentences, cd.people, lvl, rnd)
    \o fact_mcq(cd.key_sentences, lvl, rnd)
    \o acronym_questions(cd.acronyms, rnd)

\* --- inputs ------------------------------------------------------------
GEN_SENTENCES ==
    << "Maria said that the honest merchant always returned the stolen coins before the evening market closed.",
       "The old farmer and Maria carried twelve heavy baskets of ripe apples across the narrow wooden bridge.",
       "Pedro could not believe that the small village had 1200 people living near the cold river.",
       "Maria told Pedro about the long winter when the bridge had fallen into the deep water.",
       "Pedro went home.",
       "Every week the farmers bring fresh grain and bread to the crowded market in the village square.",
       "Nobody knew why Pedro never trusted the happy children who played near the farmer's old stone well.",
       "The NLP and OCR tools were used by Maria after the beautiful books had been scanned in 2019 again." >>

MaxGenSents == 6
GenOffsets == { 1, 3, 6 }

\* concepts_data['key_sentences']: n consecutive sentences of the cycle
GenSentences(off, n) ==
    AsList([k \in 1..n |-> GEN_SENTENCES[((off + k - 2) % Len(GEN_SENTENCES)) + 1]])

\* <<people, acronyms>> of concepts_data
GenExtras ==
    { << <<>>, <<>> >>,
      << <<"Pedro", "Maria">>, <<"NLP", "XYZ", "algorithm", "OCR">> >> }

GenConcepts ==
    { [key_sentences |-> GenSentences(off, n), people |-> x[1], acronyms |-> x[2]] :
        off \in GenOffsets, n \in 0..MaxGenSents, x \in GenExtras }

\* <<level, n_questions, rng>>
GenRequests ==
    { <<"beginner", 0, "keep">>, <<"intermediate", 8, "reverse">>,
      <<"advanced", 5, "rotate">> }

\* a str where a list is expected
NotAList == [is_list |-> FALSE, items |-> <<>>]

ListValue(items) == [is_list |-> TRUE, items |-> items]

\* the parsed replies of the AI service: none, one question with only its
\* text, three complete questions, and six malformed ones
AIReplies ==
    { <<>>,
      << [question |-> "What did the merchant return to the market?"] >>,
      << [type |-> "mcq", question |-> "Who carried the baskets across the bridge?",
          options |-> ListValue(<<"Maria", "Pedro", "The merchant", "The children">>),
          answer |-> "Maria", explanation |-> "Stated in the text.",
          difficulty |-> "beginner", topic |-> "people"],
         [type |-> "true_false", question |-> "True or False: the bridge had fallen.",
          options |-> ListValue(<<"True", "False">>), answer |-> "True"],
         [type |-> "fill_blank", question |-> "The village had ____ people.",
          options |-> ListValue(<<>>), answer |-> "1200", hint |-> "a number"] >>,
      << [type |-> "mcq", question |-> "Which tool read the scanned books?",
          options |-> NotAList, answer |-> "OCR"],
         [type |-> "essay", question |-> "Describe the winter in the village.",
          options |-> ListValue(<<"cold", "long", "hard", "dark", "wet">>),
          answer |-> "long"],
         [type |-> "true_false", question |-> "True or False: Pedro trusted the children.",
          answer |-> "Maybe"],
         [type |-> "fill_blank", question |-> "Maria told ____ about the winter.",
          options |-> ListValue(<<"Pedro", "Maria">>), answer |-> "Pedro"],
         [type |-> "mcq", question |-> "Who was honest in the story?",
          options |-> ListValue(<<"The Merchant", "the merchant">>),
          answer |-> "the merchant"],
         [type |-> "mcq", question |-> "Why?",
          options |-> ListValue(<<"a", "b", "c", "d">>), answer |-> "a"],
         [type |-> "mcq", question |-> "WHICH TOOL READ THE SCANNED BOOKS?",
          options |-> ListValue(<<"OCR", "NLP">>), answer |-> "NLP"] >> }

\* a caller enters generate(text, concepts_data, level, n_questions)
G_Call ==
    /\ pc = "idle"
    /\ concepts_data' \in GenConcepts
    /\ \E req \in GenRequests :
          level' = req[1] /\ n_questions' = req[2] /\ rng' = req[3]
    /\ pc' = "g_ai"
    /\ UNCHANGED <<questions, unique, selected, ai_questions, normalized>>
    /\ UNCHANGED notG

\* ai_questions = _ai.generate_quiz(clean, level, n_questions)
G_AI ==
    /\ pc = "g_ai"
    /\ \E parsed \in AIReplies : ai_questions' = generate_quiz(parsed, level, rng)
    /\ pc' = "g_gather"
    /\ UNCHANGED <<level, n_questions, rng, questions, unique, selected,
                   concepts_data, normalized>>
    /\ UNCHANGED notG

\* the AI questions alone when there are enough of them, else the rule-based
\* questions followed by the AI questions
G_Gather ==
    /\ pc = "g_gather"
    /\ questions' =
          IF Len(ai_questions) > 0 /\ Len(ai_questions) >= Max(3, n_questions \div 2)
          THEN ai_questions
          ELSE RuleBased(concepts_data, level, rng) \o ai_questions
    /\ pc' = "g_dedup"
    /\ UNCHANGED <<level, n_questions, rng, unique, selected, concepts_data,
                   ai_questions, normalized>>
    /\ UNCHANGED notG

G_Dedup ==
    /\ pc = "g_dedup"
    /\ unique' = DedupGenerated(questions)
    /\ pc' = "g_normalize"
    /\ UNCHANGED <<level, n_questions, rng, questions, selected, concepts_data,
                   ai_questions, normalized>>
    /\ UNCHANGED notG

\* normalized = [self._normalize_question(q, level) for q in unique]
G_Normalize ==
    /\ pc = "g_normalize"
    /\ normalized' = AsList([k \in 1..Len(unique) |->
                                normalize_question(unique[k], level, rng)])
    /\ pc' = "g_select"
    /\ UNCHANGED <<level, n_questions, rng, questions, unique, selected,
                   concepts_data, ai_questions>>
    /\ UNCHANGED notG

\* shuffle, selected = normalized[:n_questions], ids; return selected
G_Select ==
    /\ pc = "g_select"
    /\ LET Finished(shuffled) ==
               /\ normalized' = shuffled
               /\ selected' = AsList([i \in 1..Min(n_questions, Len(shuffled)) |->
                                         WithId(shuffled[i], i)])
       IN  Finished(Shuffle(rng, normalized))
    /\ pc' = "g_done"
    /\ UNCHANGED <<level, n_questions, rng, questions, unique, concepts_data,
                   ai_questions>>
    /\ UNCHANGED notG

NextG == G_Call \/ G_AI \/ G_Gather \/ G_Dedup \/ G_Normalize \/ G_Select

SpecG == Init /\ [][NextG]_vars

\* ------------------------------------------------------------------------
\* Properties of SmartQuizGenerator.generate
\* ------------------------------------------------------------------------
Returned == pc = "q_done"

OfType(qs, type) == { k \in 1..Len(qs) : qs[k].type = type }

\* the first 60 characters of an option, lowercased
OptionKey(o) == Lower(Prefix(o, KeyLen))

\* C1: every question of type 'mcq' in the list returned by
\* SmartQuizGenerator.generate has exactly 4 options, its answer is an exact
\* member of the options, and no two of its options share the same first 60
\* characters, lowercased.
C1_McqWellFormed ==
    Returned =>
        \A k \in OfType(selected, "mcq") :
            /\ "options" \in DOMAIN selected[k]
            /\ Len(selected[k].options) = 4
            /\ InList(selected[k].answer, selected[k].options)
            /\ \A i, j \in 1..Len(selected[k].options) :
                  i # j => OptionKey(selected[k].options[i]) # OptionKey(selected[k].options[j])

\* C7: every question of type 'true_false' in the list returned by
\* SmartQuizGenerator.generate has options exactly ['True', 'False'] and an
\* answer that is one of the two.
C7_TrueFalseOptions ==
    Returned =>
        \A k \in OfType(selected, "true_false") :
            /\ "options" \in DOMAIN selected[k]
            /\ selected[k].options = <<"True", "False">>
            /\ selected[k].answer \in {"True", "False"}

\* ------------------------------------------------------------------------
\* Properties of learning_engine.QuizGenerator.generate
\* ------------------------------------------------------------------------
Generated == pc = "g_done"

\* C6: every question returned by QuizGenerator.generate, rule-based or from
\* the AI engine, is well formed: its type is one of mcq / fill_blank /
\* true_false; an mcq has exactly 4 options and its answer is one of them; a
\* true_false has options ['True', 'False'] and its answer is one of the two;
\* a fill_blank has empty options.
C6_GeneratedWellFormed ==
    Generated =>
        \A k \in 1..Len(selected) :
            /\ selected[k].type \in QUESTION_TYPES
            /\ selected[k].type = "mcq" =>
                  /\ Len(selected[k].options) = NumOptions
                  /\ InList(selected[k].answer, selected[k].options)
            /\ selected[k].type = "true_false" =>
                  /\ selected[k].options = <<"True", "False">>
                  /\ selected[k].answer \in {"True", "False"}
            /\ selected[k].type = "fill_blank" => selected[k].options = <<>>

\* ------------------------------------------------------------------------
\* TextRankSummarizer._build_similarity_matrix
\* ------------------------------------------------------------------------
\* the tokens of a sentence that are no stopwords
ContentTokens(sentence) ==
    LET Kept(tokens) == { tokens[k] : k \in { i \in 1..Len(tokens) : tokens[i] \notin STOPWORDS } }
    IN  Kept(tokenize(sentence))

\* vocab: the non-stopword tokens of all sentences
Vocab(snts) == UNION { ContentTokens(snts[k]) : k \in 1..Len(snts) }

\* the dict of token counts: a function from the tokens kept to their counts
sentence_to_vector(sentence, vocab) ==
    LET Counted(tokens) ==
            LET kept == { k \in 1..Len(tokens) :
                             tokens[k] \notin STOPWORDS /\ tokens[k] \in vocab }
            IN  [ w \in { tokens[k] : k \in kept } |->
                      Cardinality({ k \in kept : tokens[k] = w }) ]
    IN  Counted(tokenize(sentence))

\* vec.get(w, 0)
CountIn(vec, w) == IF w \in DOMAIN vec THEN vec[w] ELSE 0

\* sum(vec_a.get(w, 0) * vec_b.get(w, 0) for w in ws)
RECURSIVE DotOver(_, _, _)
DotOver(ws, vec_a, vec_b) ==
    IF ws = {} THEN 0
    ELSE LET w == CHOOSE x \in ws : TRUE
         IN  CountIn(vec_a, w) * CountIn(vec_b, w) + DotOver(ws \ {w}, vec_a, vec_b)

\* sum(v * v for v in vec.values()): the square of the norm
NormSquared(vec) == DotOver(DOMAIN vec, vec, vec)

\* 0.0
NoSimilarity == <<0, 1>>

\* a quotient that divides by the first norm alone
cosine_similarity_onesided(vec_a, vec_b) ==
    IF DOMAIN vec_a = {} \/ DOMAIN vec_b = {} THEN NoSimilarity
    ELSE LET Quotient(dot, norm_a2, norm_b2) ==
                 IF norm_a2 = 0 \/ norm_b2 = 0 THEN NoSimilarity
                 ELSE Rat(dot * dot, norm_a2 * norm_a2)
         IN  Quotient(DotOver(DOMAIN vec_a, vec_a, vec_b),
                      NormSquared(vec_a), NormSquared(vec_b))

\* dot / (norm_a * norm_b).  The norms are square roots, so the quotient is held
\* exactly by its square, the reduced fraction dot^2 / (norm_a^2 * norm_b^2); no
\* cosine is negative, so two entries are equal exactly when their squares are.
cosine_similarity(vec_a, vec_b) ==
    IF DOMAIN vec_a = {} \/ DOMAIN vec_b = {} THEN NoSimilarity
    ELSE LET Quotient(dot, norm_a2, norm_b2) ==
                 IF norm_a2 = 0 \/ norm_b2 = 0 THEN NoSimilarity
                 ELSE Rat(dot * dot, norm_a2 * norm_b2)
         IN  Quotient(DotOver(DOMAIN vec_a, vec_a, vec_b),
                      NormSquared(vec_a), NormSquared(vec_b))

\* sentences whose vectors share tokens, repeat tokens, or are empty
SIM_SENTENCES ==
    << "The farmer trusted the farmer.",
       "Maria trusted the old market!",
       "It was the one and only.",
       "1200 + 34 = 1234",
       "Market bread, market bread, old bread." >>

MaxSimLen == 3

\* every list of at most MaxSimLen of the sentences
SimSentenceLists ==
    UNION { [1..n -> Range(SIM_SENTENCES)] : n \in 0..MaxSimLen }

\* the cell after <<i, j>> in the two nested range(n) loops
NextCell(c, n) == IF c[2] < n THEN <<c[1], c[2] + 1>> ELSE <<c[1] + 1, 1>>

M_Call ==
    /\ pc = "idle"
    /\ \E snts \in SimSentenceLists : sentences' = AsList(snts)
    /\ pc' = "m_vectors"
    /\ UNCHANGED mVars
    /\ UNCHANGED notM

\* vocab, vectors, and the n x n matrix of 0.0
M_Vectors ==
    /\ pc = "m_vectors"
    /\ LET Built(vocab) ==
               vectors' = AsList([k \in 1..Len(sentences) |->
                                     sentence_to_vector(sentences[k], vocab)])
       IN  Built(Vocab(sentences))
    /\ similarity' = AsList([i \in 1..Len(sentences) |->
                               AsList([j \in 1..Len(sentences) |-> NoSimilarity])])
    /\ cell' = <<1, 1>>
    /\ pc' = IF Len(sentences) = 0 THEN "m_done" ELSE "m_fill"
    /\ UNCHANGED sentences
    /\ UNCHANGED notM

\* one pass of the inner loop: if i != j: matrix[i][j] = cosine(vectors[i], vectors[j])
M_Cell ==
    /\ pc = "m_fill"
    /\ similarity' =
          IF cell[1] # cell[2]
          THEN [similarity EXCEPT ![cell[1]][cell[2]] =
                   cosine_similarity(vectors[cell[1]], vectors[cell[2]])]
          ELSE similarity
    /\ cell' = NextCell(cell, Len(sentences))
    /\ pc' = IF cell = <<Len(sentences), Len(sentences)>> THEN "m_done" ELSE "m_fill"
    /\ UNCHANGED <<sentences, vectors>>
    /\ UNCHANGED notM

NextM == M_Call \/ M_Vectors \/ M_Cell

SpecM == Init /\ [][NextM]_vars

\* C11: the matrix built by _build_similarity_matrix is symmetric and has a
\* zero diagonal, and a sentence whose non-stopword vector is empty has
\* similarity 0 to every other sentence.
C11_SymmetricZeroDiagonal ==
    pc = "m_done" =>
        \A i, j \in 1..Len(sentences) :
            /\ similarity[i][j] = similarity[j][i]
            /\ i = j => similarity[i][j] = NoSimilarity
            /\ DOMAIN vectors[i] = {} => similarity[i][j] = NoSimilarity

\* a finished matrix of three sentences: two that share a token and so have a
\* similarity above 0, and one with an empty vector
C11_Witness ==
    /\ pc = "m_done"
    /\ Len(sentences) = 3
    /\ \E i, j, k \in 1..3 :
          /\ i # j
          /\ similarity[i][j] # NoSimilarity
          /\ vectors[i] # vectors[j]
          /\ DOMAIN vectors[k] = {}

\* ------------------------------------------------------------------------
\* SmartQuizGenerator.generate when a sub-generator raises
\* ------------------------------------------------------------------------
\* the positions of the six questions.extend(...) calls
SUB_GENERATOR_CALLS ==
    { "q_comprehension", "q_fill_blank", "q_true_false", "q_causal", "q_keyword",
      "q_theme" }

\* An exception raised inside the sub-generator being called: generate has no
\* try/except, so the exception leaves generate and nothing is returned.
Q_Raise ==
    /\ pc \in SUB_GENERATOR_CALLS
    /\ pc' = "q_raised"
    /\ UNCHANGED <<clean, level, n_questions, rng, structured, all_sentences,
                   questions, unique, selected>>
    /\ UNCHANGED notQ

NextQF == NextQ \/ Q_Raise

SpecQF == Init /\ [][NextQF]_vars

\* the call of generate ended with the exception of a sub-generator
Raised == pc = "q_raised"

\* C12: if one of the six sub-generators called by SmartQuizGenerator.generate
\* raises an exception, generate still returns normally with the questions of
\* the other five: no call of generate ends with a sub-generator's exception.
C12_FaultContained == ~Raised

\* ------------------------------------------------------------------------
\* Properties of the tail of SmartQuizGenerator.generate
\* ------------------------------------------------------------------------
\* a question record without the fields the tail of generate adds or removes
Bare(qn) == [f \in DOMAIN qn \ {"id", "quality_score"} |-> qn[f]]

\* the candidates left after deduplication that were returned
ChosenFrom(candidates, returned) ==
    { j \in 1..Len(candidates) :
        \E k \in 1..Len(returned) : Bare(candidates[j]) = Bare(returned[k]) }

\* C13: SmartQuizGenerator.generate returns exactly min(n_questions, U)
\* questions, U the number of candidates left after deduplication; no omitted
\* candidate has a strictly higher quality score than a returned one; the
\* returned records do not expose quality_score.
C13_TopByQuality ==
    Returned =>
        /\ Len(selected) = Min(n_questions, Len(unique))
        /\ Cardinality(ChosenFrom(unique, selected)) = Len(selected)
        /\ \A j \in ChosenFrom(unique, selected) :
              \A o \in (1..Len(unique)) \ ChosenFrom(unique, selected) :
                  unique[o].quality_score <= unique[j].quality_score
        /\ \A k \in 1..Len(selected) : "quality_score" \notin DOMAIN selected[k]

\* a returned list cut to n_questions, where a candidate that was generated
\* before a returned one was omitted for its lower quality score
C13_Witness ==
    /\ Returned
    /\ n_questions > 0
    /\ Len(unique) > n_questions
    /\ Len(selected) = n_questions
    /\ LET Reordered(candidates) ==
               \E i, j \in 1..Len(candidates) :
                   /\ i < j
                   /\ candidates[i].quality_score < candidates[j].quality_score
                   /\ \E k \in 1..Len(selected) : Bare(candidates[j]) = Bare(selected[k])
                   /\ \A k \in 1..Len(selected) : Bare(candidates[i]) # Bare(selected[k])
       IN  Reordered(DedupQuestions(questions))

\* ------------------------------------------------------------------------
\* Properties of both generate methods
\* ------------------------------------------------------------------------
SpecQG == Init /\ [][NextQ \/ NextG]_vars

\* the first 60 characters of the text of a question, lowercased
TextKey(qn) == Lower(Prefix(Get(qn, "question", ""), KeyLen))

\* no two questions of the list have the same key
DistinctKeys(qs) ==
    \A i, j \in 1..Len(qs) : i # j => TextKey(qs[i]) # TextKey(qs[j])

\* candidate k is the first of the candidates with its key
FirstOfKey(candidates, k) ==
    \A j \in 1..(k - 1) : TextKey(candidates[j]) # TextKey(candidates[k])

\* candidate k went through the deduplication
KeptFrom(candidates, kept, k) == \E u \in 1..Len(kept) : kept[u] = candidates[k]

\* C14 (as stated): no two returned questions of either generate method have
\* the same first 60 characters, compared case-insensitively, and a candidate
\* is discarded by the deduplication only when an earlier candidate has the
\* same key.
C14_OnlyDuplicatesDiscarded ==
    (Returned \/ Generated) =>
        /\ DistinctKeys(selected)
        /\ \A k \in 1..Len(questions) :
              FirstOfKey(questions, k) => KeptFrom(questions, unique, k)

\* the shortest key the deduplication of the running generate method keeps
KeyFloor == IF Returned THEN MinKeyLen ELSE MinGenKeyLen

\* C14 (amended): no two returned questions of either generate method have the
\* same first 60 characters, compared case-insensitively, and a candidate is
\* discarded by the deduplication only when an earlier candidate has the same
\* key or its key has at most 10 characters (SmartQuizGenerator.generate) or
\* at most 8 characters (QuizGenerator.generate); every discarded candidate
\* is one of these.
C14_DuplicatesOrShortDiscarded ==
    (Returned \/ Generated) =>
        /\ DistinctKeys(selected)
        /\ DistinctKeys(unique)
        /\ \A k \in 1..Len(questions) :
              KeptFrom(questions, unique, k) <=>
                  /\ FirstOfKey(questions, k)
                  /\ Len(TextKey(questions[k])) > KeyFloor

\* a finished call of QuizGenerator.generate that returned several questions
\* after discarding one candidate for an earlier one of the same key and one
\* candidate for its short key
C14_Witness ==
    /\ Generated
    /\ Len(selected) >= 2
    /\ \E k \in 1..Len(questions) : ~FirstOfKey(questions, k)
    /\ \E k \in 1..Len(questions) :
          /\ FirstOfKey(questions, k)
          /\ Len(TextKey(questions[k])) <= MinGenKeyLen

\* the list that generate numbers: the shuffled list, cut to n_questions
ShuffledCut ==
    IF Returned THEN Shuffle(rng, Prefix(unique, n_questions))
    ELSE Prefix(normalized, n_questions)

\* C15: in the list returned by either generate method the question at
\* 1-based position i has id == i; the ids are assigned after the shuffle, are
\* exactly 1..k with no gaps or repeats, and k <= n_questions.
C15_SequentialIds ==
    (Returned \/ Generated) =>
        /\ Len(selected) <= n_questions
        /\ Len(selected) = Len(ShuffledCut)
        /\ \A i \in 1..Len(selected) :
              /\ selected[i].id = i
              /\ Bare(selected[i]) = Bare(ShuffledCut[i])

\* a finished call of QuizGenerator.generate whose shuffle moved the first
\* question and whose list was cut to n_questions > 2
C15_Witness ==
    /\ Generated
    /\ n_questions > 2
    /\ Len(selected) = n_questions
    /\ Len(unique) > n_questions
    /\ Bare(selected[1]) # normalize_question(unique[1], level, rng)

\* ------------------------------------------------------------------------
\* Properties of SmartQuizGenerator._semantic_true_false
\* ------------------------------------------------------------------------
\* the list _semantic_true_false returned to generate in the step just taken
TrueFalseOutput == semantic_true_false(structured.key_facts, level, rng)

Statement(sent) == "True or False: \"" \o sent \o "\""

\* C16: the output of _semantic_true_false contains, for each of the first 4
\* key facts, a true_false item with answer 'True' whose statement is that fact
\* verbatim; a 'False' item is present only for a fact whose mutated text
\* differs from the original.
C16_EveryFactOfferedTrue ==
    LET Holds(facts, out) ==
            /\ \A k \in 1..Min(4, Len(facts)) :
                  \E i \in 1..Len(out) :
                      /\ out[i].type = "true_false"
                      /\ out[i].answer = "True"
                      /\ out[i].question = Statement(facts[k])
            /\ \A i \in 1..Len(out) :
                  out[i].answer = "False" =>
                      \E k \in 1..Min(4, Len(facts)) :
                          /\ out[i].explanation =
                                "The correct version is: \"" \o facts[k] \o "\""
                          /\ out[i].question # Statement(facts[k])
    IN  pc = "q_causal" => Holds(structured.key_facts, TrueFalseOutput)

\* ------------------------------------------------------------------------
\* Properties of _pagerank on the smallest matrices
\* ------------------------------------------------------------------------
\* C19: _pagerank returns the empty list for a 0 x 0 matrix and exactly [1.0]
\* for the 1 x 1 matrix [[0.0]], for every damping and iteration setting.
C19_SmallestMatrices ==
    pc = "p_done" =>
        /\ Len(matrix) = 0 => scores = <<>>
        /\ matrix = << <<RZero>> >> => scores = <<ROne>>

\* a finished call on [[0.0]] whose loop ran with a damping strictly between
\* 0 and 1
C19_Witness ==
    /\ pc = "p_done"
    /\ matrix = << <<RZero>> >>
    /\ iterations > 0
    /\ iter_no > 0
    /\ RLess(RZero, damping)
    /\ RLess(damping, ROne)
    /\ scores = <<ROne>>

\* ------------------------------------------------------------------------
\* Properties of OCRTextRepair.repair
\* ------------------------------------------------------------------------
Repaired == pc = "r_done"

\* C20: every non-empty line of repair(text) has at least 3
\* whitespace-separated words and at least 0.4 of its characters alphabetic,
\* and the output never holds three or more consecutive newlines.
C20_LinesAreProse ==
    LET Prose(lines) ==
            \A k \in 1..Len(lines) :
                lines[k] # "" =>
                    /\ Len(Words(lines[k])) >= 3
                    /\ 5 * AlphaCount(lines[k]) >= 2 * Len(lines[k])
    IN  Repaired =>
            /\ Prose(SplitOn(repaired, "\n"))
            /\ \A p \in 1..(Len(repaired) - 2) : SubSeq(repaired, p, p + 2) # "\n\n\n"

\* a page whose middle paragraph is debris: the filter removed it and closed
\* the gap it left between the two paragraphs of prose
C20_Witness ==
    /\ Repaired
    /\ text = "the farmer went to the market.\n\nAB x\n\nTom met Ann."
    /\ repaired = "The farmer went to the market.\n\nTom met Ann."

\* ------------------------------------------------------------------------
\* Properties of main_theme in summarize_with_structure
\* ------------------------------------------------------------------------
\* a capitalized word stands in the text
HasCapitalizedPhrase(txt) ==
    \E p \in 1..(Len(txt) - 1) :
        IsUpperChar(CharAt(txt, p)) /\ IsLowerChar(CharAt(txt, p + 1))

\* C17: main_theme is the title-cased highest-scoring keyword that is not in
\* the skip list; if there is none, a capitalized phrase matched in the text;
\* only if that also fails, the literal 'General Document'.
C17_ThreeStepTheme ==
    LET offList(k) == k \notin SKIP_WORDS
        Claimed(free, theme) ==
            IF Len(free) > 0 THEN theme = CapFirst(free[1])
            ELSE IF HasCapitalizedPhrase(clean)
            THEN theme # DEFAULT_THEME /\ Contains(clean, theme)
            ELSE theme = DEFAULT_THEME
    IN  pc = "q_comprehension" =>
            Claimed(SelectSeq(get_keywords(clean, StructureTopN), offList),
                    structured.main_theme)

\* ------------------------------------------------------------------------
\* Properties of summarize and generate on text without sentences
\* ------------------------------------------------------------------------
SpecSQ == Init /\ [][NextS \/ NextQ]_vars

\* summarize fell back to the first 500 characters of a text without sentences
FallsBack == pc = "s_done" /\ extract_sentences(text) = <<>> => summary = Prefix(text, FallbackLen)

\* C18 as stated: when extract_sentences(text) is empty, summarize(text)
\* returns the first 500 characters of text unchanged and generate(text)
\* returns an empty list.
C18_NothingFromUnextractable ==
    /\ FallsBack
    /\ Returned /\ extract_sentences(text) = <<>> => selected = <<>>

\* C18, amended: when extract_sentences(text) is empty, summarize(text)
\* returns the first 500 characters of text unchanged; generate(text) returns
\* an empty list when extract_sentences of the cleaned text, clean_text(text),
\* is empty.
C18_NothingFromUnextractableClean ==
    /\ FallsBack
    /\ Returned /\ extract_sentences(clean) = <<>> => selected = <<>>

\* generate was asked for questions on a short page that has no sentence
\* before or after cleaning, and returned
C18_Witness ==
    /\ Returned
    /\ text = "Tom Ray was here."
    /\ extract_sentences(clean) = <<>>
    /\ n_questions > 0
    /\ selected = <<>>

\* ------------------------------------------------------------------------
\* Properties of NLPEngine.extract_sentences
\* ------------------------------------------------------------------------
\* summarize holds the list extract_sentences(text) returned
Extracted == pc \in { "s_rank", "s_select", "s_done" }

\* the number of maximal runs of letters in s
LetterRuns(s) ==
    Cardinality({ p \in 1..Len(s) :
                    IsAlphaChar(At(s, p)) /\ (p = 1 \/ ~IsAlphaChar(At(s, p - 1))) })

RECURSIVE SubsequenceFrom(_, _, _)
\* xs can be read off the stripped candidates cands[from..], left to right,
\* each candidate used at most once
SubsequenceFrom(xs, cands, from) ==
    IF Len(xs) = 0 THEN TRUE
    ELSE LET js == { j \in from..Len(cands) : Strip(cands[j]) = xs[1] } IN
         /\ js # {}
         /\ SubsequenceFrom(Tail(xs), cands, (CHOOSE j \in js : \A k \in js : j <= k) + 1)

\* C21: every string returned by extract_sentences is trimmed, has at least 5
\* alphabetic words and an alphabetic-character ratio of at least 0.55, and
\* the returned list is an order-preserving subsequence of the candidates
\* obtained by splitting the text.
C21_ExtractedAreSentences ==
    Extracted =>
        /\ \A k \in 1..Len(sentences) :
              /\ Strip(sentences[k]) = sentences[k]
              /\ LetterRuns(sentences[k]) >= 5
              /\ 100 * CountAlpha(sentences[k]) >= 55 * Len(sentences[k])
        /\ SubsequenceFrom(sentences, SplitSentences(text), 1)

\* the odd page: its margins were trimmed, the sentence of digits and the one
\* of three words were rejected, the two sentences of prose kept in order
C21_Witness ==
    /\ Extracted
    /\ text = ODD_PAGE
    /\ Len(SplitSentences(text)) = 4
    /\ sentences = << "Maria walked to the old market today.",
                      "Nobody knew why the bridge had fallen." >>

\* ------------------------------------------------------------------------
\* Properties of the order of the passes in OCRTextRepair.repair
\* ------------------------------------------------------------------------
\* the positions of a call of repair, in the order the claim gives the passes:
\* encoding, artifacts, line breaks, character confusions, spacing, sentence
\* reconstruction, capitalization, quality filter, and the return
REPAIR_ORDER ==
    << "r_pass1", "r_pass2", "r_pass3", "r_pass4", "r_pass5", "r_pass6",
       "r_pass7", "r_pass8", "r_return" >>

\* what the k-th pass of the claim's order makes of t
PassResult(k, t) ==
    CASE k = 1 -> pass1_fix_encoding(t)
      [] k = 2 -> pass2_remove_artifacts(t)
      [] k = 3 -> pass3_fix_line_breaks(t)
      [] k = 4 -> pass4_fix_char_errors(t)
      [] k = 5 -> pass5_fix_spacing(t)
      [] k = 6 -> pass6_reconstruct_sentences(t)
      [] k = 7 -> pass7_fix_punctuation(t)
      [] k = 8 -> pass8_quality_filter(t)

\* C22: repair applies its eight passes exactly once each and in the fixed
\* order; no pass runs before an earlier-numbered pass has completed: a call
\* starts at the first pass, every step taken at the k-th position applies the
\* k-th pass and moves to position k + 1, and no step returns to a pass.
C22_PassesInOrder ==
    [][ /\ pc = "idle" /\ pc' # "idle" => pc' = REPAIR_ORDER[1] /\ repaired' = text'
        /\ \A k \in 1..8 :
              /\ pc = REPAIR_ORDER[k] =>
                    pc' = REPAIR_ORDER[k + 1] /\ repaired' = PassResult(k, repaired)
              /\ pc' = REPAIR_ORDER[k + 1] => pc = REPAIR_ORDER[k]
        /\ pc = "r_return" => pc' = "r_done" /\ repaired' = Strip(repaired)
        /\ pc = "r_done" => pc' = "r_done"
      ]_vars

\* a page on which the hyphenated line was joined, the capital noise removed, rn read as m,
\* the first letter raised and the debris line filtered out, and repair returned
C22_Witness ==
    /\ Repaired
    /\ text = "corn-\nthe farmer went to the market.\n\nAB x"
    /\ repaired = "Comthe farmer went to the market."

\* ------------------------------------------------------------------------
\* Properties of calls made one after another on the same objects
\* ------------------------------------------------------------------------
\* summarize and generate return: their locals are gone, the random source
\* stays where generate's shuffles left it, the objects stay as they are
I_Return ==
    /\ pc \in {"s_done", "q_done"}
    /\ pc' = "idle"
    /\ text' = "" /\ ratio' = <<0, 1>> /\ max_sentences' = 0 /\ min_sentences' = 0
    /\ sentences' = <<>> /\ rank_scores' = <<>> /\ top_indices' = <<>> /\ summary' = ""
    /\ clean' = "" /\ level' = "" /\ n_questions' = 0
    /\ structured' = [key_facts |-> <<>>] /\ all_sentences' = <<>>
    /\ questions' = <<>> /\ unique' = <<>> /\ selected' = <<>>
    /\ repaired' = "" /\ caller' = ""
    /\ UNCHANGED <<rng, eVars, pVars, gVars, mVars, iVars, wVars, uVars>>

SpecI == Init /\ [][NextS \/ NextQ \/ I_Return]_vars

\* what summarize returns for the arguments of the running call, given the
\* scores of its sentences
SummaryOfCall ==
    LET Summary(sents) ==
            IF Len(sents) = 0 THEN Prefix(text, FallbackLen)
            ELSE IF Len(sents) <= min_sentences THEN join_into_paragraph(sents, "neutral")
            ELSE join_into_paragraph(
                     Selected(sents, TopIndices(rank_scores,
                                                NumSelected(Len(sents), ratio,
                                                            max_sentences, min_sentences))),
                     "neutral")
    IN  Summary(extract_sentences(text))

CauseOf(keyword, parts) == IF keyword = "because" THEN parts[2] ELSE parts[1]
EffectOf(keyword, parts) == IF keyword = "because" THEN parts[1] ELSE parts[2]

RESULT_OF == "According to the text, what is the result of: \""
WHAT_CAUSED == "According to the text, what caused: \""
FULL_SENTENCE == "The full sentence: \""

\* the sentence a causal question quotes in its explanation
QuotedSentence(q) == SubSeq(q.explanation, Len(FULL_SENTENCE) + 1, Len(q.explanation) - 1)

\* question q reads the sentence it was built from in the direction of one
\* of the connectives the sentence holds
AgreesWithDirection(q) ==
    LET sent == QuotedSentence(q)
        Agrees(keyword, parts) ==
            /\ parts # <<>>
            /\ \/ /\ q.question = RESULT_OF \o Shortened(CauseOf(keyword, parts)) \o "\"?"
                  /\ q.answer = Prefix(EffectOf(keyword, parts), OptionLen)
               \/ /\ q.question = WHAT_CAUSED \o Shortened(EffectOf(keyword, parts)) \o "\"?"
                  /\ q.answer = Prefix(CauseOf(keyword, parts), OptionLen)
    IN  \E k \in 1..Len(CAUSAL_PAIRS) :
            Agrees(CAUSAL_PAIRS[k][1],
                   CausalParts(sent, CAUSAL_PAIRS[k][1], CAUSAL_PAIRS[k][2]))

CausalQuestions == { k \in 1..Len(questions) : questions[k].topic = "causal reasoning" }

\* C24: every causal question asks for the result of the cause and answers
\* with the effect, or asks what caused the effect and answers with the
\* cause, for each of the six connectives
C24_CausalDirection == \A k \in CausalQuestions : AgreesWithDirection(questions[k])

\* the same for the questions built from sentences without 'because'
C24_DirectionWithoutBecause ==
    \A k \in CausalQuestions :
        ~Contains(Lower(QuotedSentence(questions[k])), " because ")
            => AgreesWithDirection(questions[k])

\* ------------------------------------------------------------------------
\* Properties of the ranking in summarize
\* ------------------------------------------------------------------------
\* sentence i is ranked above sentence j: a higher adjusted score, or the same
\* score and an earlier place in the document
RankedAbove(i, j) ==
    \/ RLess(rank_scores[j], rank_scores[i])
    \/ /\ ~RLess(rank_scores[i], rank_scores[j])
       /\ i < j

\* C25: when more than min_sentences sentences were ranked, the selection has
\* exactly num members, and each of them has a higher adjusted score than
\* every sentence left out, or the same score and an earlier place
C25_HighestAdjustedScores ==
    Ranked =>
        /\ Cardinality(Range(top_indices)) =
               NumSelected(Len(sentences), ratio, max_sentences, min_sentences)
        /\ \A i \in Range(top_indices) :
               \A j \in (1..Len(sentences)) \ Range(top_indices) : RankedAbove(i, j)

\* a selection that leaves out a sentence with the score of a selected one,
\* and a later sentence selected over an earlier one that _pagerank scored the
\* same, because of its place in the document
C25_Witness ==
    /\ Ranked
    /\ \E i \in Range(top_indices) :
           \E j \in (1..Len(sentences)) \ Range(top_indices) :
               /\ ~RLess(rank_scores[i], rank_scores[j])
               /\ ~RLess(rank_scores[j], rank_scores[i])
    /\ \E i \in Range(top_indices) :
           \E j \in (1..Len(sentences)) \ Range(top_indices) :
               LET n == Len(sentences)
                   a == RMul(rank_scores[i], PositionFactor(j - 1, n))
                   b == RMul(rank_scores[j], PositionFactor(i - 1, n))
               IN  /\ j < i
                   /\ RLess(rank_scores[j], rank_scores[i])
                   /\ ~RLess(a, b) /\ ~RLess(b, a)

\* ------------------------------------------------------------------------
\* nlp_engine.TextRankSummarizer.summarize: the positional multipliers
\* ------------------------------------------------------------------------
MaxRanked == 11

\* what _pagerank returned for n sentences: one of two scores for each
PagerankScores(n) == [1..n -> { <<1, 1>>, <<7, 3>> }]

\* scores = self._pagerank(matrix) for n = len(sentences) sentences
A_Call ==
    /\ pc = "idle"
    /\ \E n \in 1..MaxRanked : scores' \in PagerankScores(n)
    /\ pc' = "a_adjust"
    /\ UNCHANGED <<matrix, damping, iterations, norm_matrix, iter_no>>
    /\ UNCHANGED notP

\* for i in range(n): scores[i] *= 1.5, 1.2, 1.1 or nothing
A_Adjust ==
    /\ pc = "a_adjust"
    /\ rank_scores' = AdjustScores(scores)
    /\ pc' = "a_done"
    /\ UNCHANGED <<text, ratio, max_sentences, min_sentences, sentences, top_indices,
                   summary>>
    /\ UNCHANGED notS

NextA == A_Call \/ A_Adjust

SpecA == Init /\ [][NextA]_vars

\* x = y for rationals
RSame(x, y) == ~RLess(x, y) /\ ~RLess(y, x)

\* C26: each score is multiplied by one multiplier at most: 1.5 at index 0,
\* otherwise 1.2 at index N-1, otherwise 1.1 when index/N < 0.1, otherwise
\* none; the first sentence gets 1.5 alone
C26_OneMultiplier ==
    pc = "a_done" =>
        /\ Len(rank_scores) = Len(scores)
        /\ \A k \in 1..Len(scores) :
              LET i == k - 1
                  n == Len(scores)
                  times(f) == RSame(rank_scores[k], RMul(scores[k], f))
              IN  /\ i = 0 => times(<<15, 10>>)
                  /\ (i # 0 /\ i = n - 1) => times(<<12, 10>>)
                  /\ (i # 0 /\ i # n - 1 /\ 10 * i < n) => times(<<11, 10>>)
                  /\ (i # 0 /\ i # n - 1 /\ 10 * i >= n) => times(<<1, 1>>)

\* scores of eleven sentences adjusted: the first by 1.5, the second by 1.1,
\* the last by 1.2, the third not at all
C26_Witness ==
    /\ pc = "a_done"
    /\ Len(scores) = 11
    /\ RSame(rank_scores[1], RMul(scores[1], <<15, 10>>))
    /\ RSame(rank_scores[2], RMul(scores[2], <<11, 10>>))
    /\ RSame(rank_scores[3], scores[3])
    /\ RSame(rank_scores[11], RMul(scores[11], <<12, 10>>))

\* ------------------------------------------------------------------------
\* Properties of _smart_fill_blank
\* ------------------------------------------------------------------------
ORIGINAL_SENTENCE == "The original sentence: \""
COMPLETE_SENTENCE == "Complete the sentence:\n\""

\* the sentence a fill_blank question quotes in its explanation
BlankedSentence(q) ==
    SubSeq(q.explanation, Len(ORIGINAL_SENTENCE) + 1, Len(q.explanation) - 1)

\* words[i] may be blanked: three characters or more without its punctuation,
\* no stopword, no possessive
IsCandidate(words, i) ==
    /\ Len(AlnumOnly(words[i])) >= 3
    /\ Lower(AlnumOnly(words[i])) \notin STOPWORDS
    /\ ~EndsWith(words[i], "'s") /\ ~EndsWith(words[i], "s'")

\* +4 capitalized mid-sentence, +3 action verb, +2 length >= 5, +2 starts
\* with a digit
CandidateScore(words, i) ==
    LET w == AlnumOnly(words[i])
        points(cond, n) == IF cond THEN n ELSE 0
    IN  points(At(w, 1) \in UpperChars /\ i # 1 /\ i # Len(words), 4)
        + points(Lower(w) \in ACTION_WORDS, 3)
        + points(Len(w) >= 5, 2)
        + points(At(w, 1) \in DigitChars, 2)

\* question q blanks the word at place i of the sentence it quotes
BlanksAt(q, words, i) ==
    /\ q.question = COMPLETE_SENTENCE
                    \o Join(AsList([k \in 1..Len(words) |->
                                       IF k = i THEN BLANK ELSE words[k]]), " ")
                    \o "\""
    /\ q.answer = AlnumOnly(words[i])

FillBlankQuestions == { k \in 1..Len(questions) : questions[k].type = "fill_blank" }

\* C27: every fill_blank question blanks a candidate word of its sentence
\* whose score is at least 2 and the highest of all candidates, the first of
\* the words with that score; its difficulty is 'beginner' when the score is
\* at most 3 and the requested level otherwise
C27_BlankIsBestCandidate ==
    \A n \in FillBlankQuestions :
        LET q == questions[n]
            words == Words(BlankedSentence(q))
        IN  \E i \in 1..Len(words) :
                /\ BlanksAt(q, words, i)
                /\ IsCandidate(words, i)
                /\ CandidateScore(words, i) >= 2
                /\ \A j \in 1..Len(words) :
                       IsCandidate(words, j) =>
                           /\ CandidateScore(words, j) <= CandidateScore(words, i)
                           /\ j < i => CandidateScore(words, j) < CandidateScore(words, i)
                /\ q.difficulty = IF CandidateScore(words, i) <= 3 THEN "beginner" ELSE level

\* a question for another level than 'beginner' whose blank is the first of
\* two words with the highest score, that score being at most 3, beside a
\* question whose blank scored more than 3
C27_Witness ==
    /\ level # "beginner"
    /\ \E n \in FillBlankQuestions :
           LET q == questions[n]
               words == Words(BlankedSentence(q))
           IN  \E i, j \in 1..Len(words) :
                   /\ i < j
                   /\ BlanksAt(q, words, i)
                   /\ IsCandidate(words, j)
                   /\ CandidateScore(words, j) = CandidateScore(words, i)
                   /\ q.difficulty = "beginner"
    /\ \E n \in FillBlankQuestions : questions[n].difficulty = level

\* ------------------------------------------------------------------------
\* Properties of the comprehension questions in generate's dedup loop
\* ------------------------------------------------------------------------
Deduplicated == pc \in {"q_select", "q_done"}

\* the comprehension questions among the candidates generate collected
ComprehensionQuestions ==
    { k \in 1..Len(questions) : questions[k].question = COMPREHENSION_QUESTION }

\* C28: when _comprehension_mcq built three questions from three distinct
\* facts, all three are still candidates after the dedup loop
C28_ComprehensionSurvivesDedup ==
    (/\ Deduplicated
     /\ Cardinality(ComprehensionQuestions) = 3
     /\ Cardinality({ questions[k].answer : k \in ComprehensionQuestions }) = 3)
        => \A k \in ComprehensionQuestions : InList(questions[k], unique)

\* the first comprehension question is a candidate after the dedup loop
C28_FirstSurvives ==
    (Deduplicated /\ ComprehensionQuestions # {})
        => \E k \in ComprehensionQuestions :
              /\ \A j \in ComprehensionQuestions : k <= j
              /\ InList(questions[k], unique)
              /\ \A j \in ComprehensionQuestions \ {k} : ~InList(questions[j], unique)

\* ------------------------------------------------------------------------
\* nlp_engine.SentenceRewriter.rewrite_sentence, called on its own result
\* ------------------------------------------------------------------------
REWRITE_LEADS ==
    { "", "And ", "but ", "And but ", "so  However ", "Because\tyet ", "Andy ", "or" }
REWRITE_BODIES ==
    { "the river runs", "what did he say", "A B", "", "it  was late",
      "aaaaaaaaaaaaaaa  whoever came" }
REWRITE_TAILS == { "", ".", "!!", " ?", "?!.", "  " }

RewriteInputs ==
    { l \o b \o t : l \in REWRITE_LEADS, b \in REWRITE_BODIES, t \in REWRITE_TAILS }

\* a caller enters rewrite_sentence(sentence)
W_Call ==
    /\ pc = "idle"
    /\ rw_sentence' \in RewriteInputs
    /\ pc' = "w_rewrite"
    /\ UNCHANGED <<rw_result, eVars, pVars, sVars, qVars, gVars, mVars, rVars, iVars, uVars>>

\* the body of rewrite_sentence, up to its return
W_Rewrite ==
    /\ pc \in {"w_rewrite", "w_rewrite_again"}
    /\ rw_result' = rewrite_sentence(rw_sentence)
    /\ pc' = IF pc = "w_rewrite" THEN "w_done" ELSE "w_done_again"
    /\ UNCHANGED <<rw_sentence, eVars, pVars, sVars, qVars, gVars, mVars, rVars, iVars,
                   uVars>>

\* the caller passes the returned string to rewrite_sentence once more
W_Again ==
    /\ pc = "w_done"
    /\ rw_sentence' = rw_result
    /\ pc' = "w_rewrite_again"
    /\ UNCHANGED <<rw_result, eVars, pVars, sVars, qVars, gVars, mVars, rVars, iVars, uVars>>

NextW == W_Call \/ W_Rewrite \/ W_Again

SpecW == Init /\ [][NextW]_vars

\* s begins with one of the listed conjunctions followed by whitespace
BeginsWithConjunction(s) == StripConjunction(s) # s

\* C29: rewrite_sentence applied to its own result returns it unchanged, and
\* no result begins with a listed conjunction followed by whitespace
C29_Idempotent ==
    /\ pc = "w_done_again" => rw_result = rw_sentence
    /\ pc \in {"w_done", "w_done_again"} => ~BeginsWithConjunction(rw_result)

\* ------------------------------------------------------------------------
\* learning_engine.UserLevelAssessor.calculate_score
\* ------------------------------------------------------------------------
\* is_correct for the stripped, lowercased strings given and correct
IsCorrect(given, right) ==
    \/ given = right
    \/ Contains(Prefix(right, 50), Prefix(given, 30))
    \/ Contains(Prefix(given, 50), Prefix(right, 30))
    \/ Len(given) > 3 /\ Contains(right, given)

\* question_map.get(id): the last question with that id, <<>> when there is none
QuestionOf(questions_, id) ==
    LET with == { k \in 1..Len(questions_) : questions_[k].id = id }
    IN  IF with = {} THEN <<>>
        ELSE << questions_[CHOOSE k \in with : \A j \in with : j <= k] >>

\* 'advanced' if pct >= 75 else ('intermediate' if pct >= 45 else 'beginner')
InferredLevel(pct) ==
    IF pct >= 75 THEN "advanced" ELSE IF pct >= 45 THEN "intermediate" ELSE "beginner"

\* --- inputs ------------------------------------------------------------
SCORED_QUIZ ==
    << [id |-> 1, question |-> "What is the capital of France?", answer |-> "Paris"],
       [id |-> 2, question |-> "True or False: \"The farmer was honest.\"", answer |-> "True"],
       [id |-> 3, question |-> "Who gave the apples?", answer |-> " The honest farmer "],
       [id |-> 4, question |-> "Complete the sentence.", answer |-> ""] >>

GIVEN_ANSWERS == { "", "   ", "Paris", " paris", "Pari", "False", "farmer", "honest farmers" }
\* ids of submitted answers: those of the quiz and one that no question has
ANSWER_IDS == {1, 2, 3, 4, 9}
MaxAnswers == 2

SubmittedAnswers ==
    UNION { [1..n -> [id : ANSWER_IDS, given : GIVEN_ANSWERS]] : n \in 0..MaxAnswers }

\* a caller enters calculate_score(answers, questions)
U_Call ==
    /\ pc = "idle"
    /\ answers' \in SubmittedAnswers
    /\ quiz' = SCORED_QUIZ
    /\ ans_no' = 0
    /\ details' = <<>>
    /\ correct_count' = 0
    /\ pc' = "u_loop"
    /\ UNCHANGED <<report, eVars, pVars, sVars, qVars, gVars, mVars, rVars, iVars, wVars>>

\* one pass of the loop `for ans in answers`
U_Answer ==
    /\ pc = "u_loop"
    /\ ans_no < Len(answers)
    /\ ans_no' = ans_no + 1
    /\ LET ans == answers[ans_no + 1]
           found == QuestionOf(quiz, ans.id)
           Scored(q) ==
               LET given == Lower(Strip(ans.given))
                   right == Lower(Strip(q.answer))
                   is_correct == IsCorrect(given, right)
               IN  /\ correct_count' = correct_count + (IF is_correct THEN 1 ELSE 0)
                   /\ details' = Append(details,
                                        [ id |-> q.id, question |-> q.question,
                                          given |-> ans.given, correct_answer |-> q.answer,
                                          is_correct |-> is_correct ])
       IN  IF found = <<>> THEN UNCHANGED <<details, correct_count>>
           ELSE Scored(found[1])
    /\ UNCHANGED <<pc, answers, quiz, report>>
    /\ UNCHANGED <<eVars, pVars, sVars, qVars, gVars, mVars, rVars, iVars, wVars>>

\* total, pct, inferred and the returned dict
U_Return ==
    /\ pc = "u_loop"
    /\ ans_no = Len(answers)
    /\ LET total == Len(answers)
           pct == IF total > 0 THEN RoundOf(<<correct_count * 100, total>>) ELSE 0
       IN  report' = [ overall_score |-> pct, correct |-> correct_count, total |-> total,
                       inferred_level |-> InferredLevel(pct), details |-> details ]
    /\ pc' = "u_done"
    /\ UNCHANGED <<answers, quiz, ans_no, details, correct_count>>
    /\ UNCHANGED <<eVars, pVars, sVars, qVars, gVars, mVars, rVars, iVars, wVars>>

NextU == U_Call \/ U_Answer \/ U_Return

SpecU == Init /\ [][NextU]_vars

\* --- properties of calculate_score ---------------------------------------
\* C30: no submitted answer whose given text is empty or blank is marked
\* correct when the answer of its question is not empty
C30_BlankIsIncorrect ==
    \A k \in 1..Len(details) :
        (Strip(details[k].given) = "" /\ details[k].correct_answer # "")
            => ~details[k].is_correct

\* a submitted answer that is not blank is marked correct only when it equals
\* the answer or one of the two is contained in the other
C30_MarkedOnlyOnMatch ==
    \A k \in 1..Len(details) :
        (Strip(details[k].given) # "" /\ details[k].is_correct) =>
            LET given == Lower(Strip(details[k].given))
                right == Lower(Strip(details[k].correct_answer))
            IN  Contains(right, given) \/ Contains(given, right)
====
